---- MODULE Spec2Model ----
(***************************************************************************)
(* Beam mechanics model of beam-analyzer: the Beam class of the desktop    *)
(* program (src/beam_analyzer.py) and its copy in the web dashboard        *)
(* (src/streamlit_app.py).                                                 *)
(*                                                                         *)
(* Numbers.  The program computes in IEEE double precision.  The model     *)
(* computes in exact rational arithmetic: a number is a pair <<p, q>> with *)
(* q > 0 and gcd(p, q) = 1, so equal numbers are equal values.  Rounding   *)
(* error of the floating-point operations is therefore not modelled; a     *)
(* property stated here is a property of the formulas the code evaluates.  *)
(* Python's None is the pair <<0, 0>>, which is no number.                  *)
(***************************************************************************)
EXTENDS Integers, Sequences, FiniteSets, TLC

(***************************************************************************)
(* Bounds of the model.                                                    *)
(***************************************************************************)
MaxL == 3        \* beam lengths are 0 .. MaxL
MaxLoad == 2     \* load magnitudes are -MaxLoad .. MaxLoad
ADen == 2        \* load positions a are multiples of 1/ADen
MaxN == 5        \* sample counts n are 2 .. MaxN
MaxE == 2        \* Young's moduli E are 0 .. MaxE
MaxI == 1        \* moments of inertia I are 0 .. MaxI
MaxM == 1        \* entries of a free moment array are -MaxM .. MaxM

\* Python's None where a number may stand: a pair that is no number
None == <<0, 0>>

(***************************************************************************)
(* Exact rational arithmetic.                                              *)
(***************************************************************************)
Abs(i) == IF i < 0 THEN -i ELSE i

RECURSIVE GCD(_, _)
GCD(i, j) == IF j = 0 THEN i ELSE GCD(j, i % j)

Norm(p, q) ==
    LET g == GCD(Abs(p), Abs(q))
        s == IF q < 0 THEN -1 ELSE 1
    IN  <<(s * p) \div g, (s * q) \div g>>

Rat(i) == <<i, 1>>
Frac(p, q) == Norm(p, q)

\* sums and comparisons go over the least common denominator, which keeps
\* the intermediate integers small
RAdd(r, s) ==
    LET g == GCD(r[2], s[2])
    IN  Norm(r[1] * (s[2] \div g) + s[1] * (r[2] \div g),
             r[2] * (s[2] \div g))
RSub(r, s) ==
    LET g == GCD(r[2], s[2])
    IN  Norm(r[1] * (s[2] \div g) - s[1] * (r[2] \div g),
             r[2] * (s[2] \div g))
RMul(r, s) == Norm(r[1] * s[1], r[2] * s[2])
RNeg(r) == <<-r[1], r[2]>>
RIsZero(r) == r[1] = 0
\* r / s for s # 0 (the callers test s first: Python raises ZeroDivisionError)
RDiv(r, s) == Norm(r[1] * s[2], r[2] * s[1])
RLt(r, s) ==
    LET g == GCD(r[2], s[2])
    IN  r[1] * (s[2] \div g) < s[1] * (r[2] \div g)
RLe(r, s) ==
    LET g == GCD(r[2], s[2])
    IN  r[1] * (s[2] \div g) <= s[1] * (r[2] \div g)
RAbs(r) == <<Abs(r[1]), r[2]>>
RSq(r) == RMul(r, r)

Zero == Rat(0)
Half == Frac(1, 2)

(***************************************************************************)
(* The strings the program dispatches on.                                  *)
(***************************************************************************)
SS == "Simply Supported"
CANT == "Cantilever"
FF == "Fixed-Fixed"
PLC == "Point Load (Center)"
PLA == "Point Load (Any Position)"
UDL == "UDL (Uniformly Distributed Load)"
AMC == "Applied Moment (Center)"
PLE == "Point Load (End)"
AME == "Applied Moment (End)"

\* the beam types and load types the forms offer, and for each one more
\* string, which a loaded project file may carry and no branch matches
BeamTypes == {SS, CANT, FF, "Propped"}
LoadTypes == {PLC, PLA, UDL, AMC, PLE, AME, "Triangular Load"}

\* the nine (beam_type, load_type) pairs some branch of diagrams handles
DefinedCases ==
    {<<SS, PLC>>, <<SS, PLA>>, <<SS, UDL>>, <<SS, AMC>>,
     <<CANT, PLE>>, <<CANT, UDL>>, <<CANT, AME>>,
     <<FF, UDL>>, <<FF, PLC>>}

Impls == {"desktop", "web"}

Lengths == {Rat(i) : i \in 0..MaxL}
Loads == {Rat(i) : i \in -MaxLoad..MaxLoad}
Positions == {None} \cup {Frac(k, ADen) : k \in -1..(MaxL * ADen + 1)}
SampleCounts == 2..MaxN

(***************************************************************************)
(* numpy helpers.                                                          *)
(***************************************************************************)
\* a fault of linspace: endpoint=False (step = (stop-start)/n, stop left out)
linspace_no_endpoint(start, stop, n) ==
    LET step == RDiv(RSub(stop, start), Rat(n))
    IN  [i \in 1..n |-> RAdd(start, RMul(Rat(i - 1), step))]

\* np.linspace(start, stop, n): start + i*step with step = (stop-start)/(n-1),
\* the last sample set to stop itself
linspace(start, stop, n) ==
    IF n = 1 THEN <<start>>
    ELSE LET step == RDiv(RSub(stop, start), Rat(n - 1))
         IN  [i \in 1..n |->
                IF i = n THEN stop ELSE RAdd(start, RMul(Rat(i - 1), step))]

\* np.zeros_like(x), np.full_like(x, v)
zeros_like(xs) == [i \in DOMAIN xs |-> Zero]
full_like(xs, v) == [i \in DOMAIN xs |-> v]

(***************************************************************************)
(* Beam.__init__.                                                          *)
(***************************************************************************)
Beam(beam_type, load_type, length, load, E, I, c, material, yield_strength, a) ==
    [beam_type |-> beam_type, load_type |-> load_type, length |-> length,
     load |-> load, E |-> E, I |-> I, c |-> c, material |-> material,
     yield_strength |-> yield_strength, a |-> a]

\* the web copy converts the numbers with float(); a yield_strength or an a
\* of None stays None
web_Beam(beam_type, load_type, length, load, E, I, c, material, yield_strength, a) ==
    [beam_type |-> beam_type, load_type |-> load_type, length |-> length,
     load |-> load, E |-> E, I |-> I, c |-> c, material |-> material,
     yield_strength |->
         IF yield_strength \in {None} THEN None ELSE yield_strength,
     a |-> IF a \in {None} THEN None ELSE a]

\* float(c) of the web copy raises TypeError on None
web_Beam_raises(c) == c = None

(***************************************************************************)
(* Beam.diagrams of the desktop program, one operator per branch.  Each    *)
(* returns the pair of arrays [V, M] over the samples xs.                  *)
(***************************************************************************)
\* a fault of ss_point_center: the shear switches with x <= L/2
ss_point_center_le(L, P, xs) ==
    LET R == RDiv(P, Rat(2))
        L2 == RDiv(L, Rat(2))
    IN  [V |-> [i \in DOMAIN xs |-> IF RLe(xs[i], L2) THEN R ELSE RSub(R, P)],
         M |-> [i \in DOMAIN xs |->
                  IF RLe(xs[i], L2) THEN RMul(R, xs[i])
                  ELSE RSub(RMul(R, xs[i]), RMul(P, RSub(xs[i], L2)))]]

\* Simply Supported, Point Load (Center)
ss_point_center(L, P, xs) ==
    LET R == RDiv(P, Rat(2))
        L2 == RDiv(L, Rat(2))
    IN  [V |-> [i \in DOMAIN xs |-> IF RLt(xs[i], L2) THEN R ELSE RSub(R, P)],
         M |-> [i \in DOMAIN xs |->
                  IF RLe(xs[i], L2) THEN RMul(R, xs[i])
                  ELSE RSub(RMul(R, xs[i]), RMul(P, RSub(xs[i], L2)))]]

\* a fault of ss_point_any: the shear switches with x <= a
ss_point_any_le(L, P, self_a, xs) ==
    LET a0 == IF self_a # None THEN self_a ELSE RDiv(L, Rat(2))
        R1 == RDiv(RMul(P, RSub(L, a0)), L)
    IN  [V |-> [i \in DOMAIN xs |-> IF RLe(xs[i], a0) THEN R1 ELSE RSub(R1, P)],
         M |-> [i \in DOMAIN xs |->
                  IF RLt(xs[i], a0) THEN RMul(R1, xs[i])
                  ELSE RSub(RMul(R1, xs[i]), RMul(P, RSub(xs[i], a0)))]]

\* a fault of ss_point_any: the left reaction taken as P*a/L
ss_point_any_swapped_r1(L, P, self_a, xs) ==
    LET a0 == IF self_a # None THEN self_a ELSE RDiv(L, Rat(2))
        R1 == RDiv(RMul(P, a0), L)
    IN  [V |-> [i \in DOMAIN xs |-> IF RLt(xs[i], a0) THEN R1 ELSE RSub(R1, P)],
         M |-> [i \in DOMAIN xs |->
                  IF RLt(xs[i], a0) THEN RMul(R1, xs[i])
                  ELSE RSub(RMul(R1, xs[i]), RMul(P, RSub(xs[i], a0)))]]

\* Simply Supported, Point Load (Any Position); L # 0
ss_point_any(L, P, self_a, xs) ==
    LET a0 == IF self_a # None THEN self_a ELSE RDiv(L, Rat(2))
        R1 == RDiv(RMul(P, RSub(L, a0)), L)
    IN  [V |-> [i \in DOMAIN xs |-> IF RLt(xs[i], a0) THEN R1 ELSE RSub(R1, P)],
         M |-> [i \in DOMAIN xs |->
                  IF RLt(xs[i], a0) THEN RMul(R1, xs[i])
                  ELSE RSub(RMul(R1, xs[i]), RMul(P, RSub(xs[i], a0)))]]

\* a fault of ss_udl: the factor 0.5 of w*x**2 dropped
ss_udl_no_half(L, w, xs) ==
    LET R == RDiv(RMul(w, L), Rat(2))
    IN  [V |-> [i \in DOMAIN xs |-> RSub(R, RMul(w, xs[i]))],
         M |-> [i \in DOMAIN xs |-> RSub(RMul(R, xs[i]), RMul(w, RSq(xs[i])))]]

\* Simply Supported, UDL
ss_udl(L, w, xs) ==
    LET R == RDiv(RMul(w, L), Rat(2))
    IN  [V |-> [i \in DOMAIN xs |-> RSub(R, RMul(w, xs[i]))],
         M |-> [i \in DOMAIN xs |->
                  RSub(RMul(R, xs[i]), RMul(RMul(Half, w), RSq(xs[i])))]]

\* a fault of ss_moment_center: the midspan sample left at 0 (x <= L/2)
ss_moment_center_le(L, M0, xs) ==
    LET L2 == RDiv(L, Rat(2))
    IN  [V |-> zeros_like(xs),
         M |-> [i \in DOMAIN xs |-> IF RLe(xs[i], L2) THEN Zero ELSE M0]]

\* Simply Supported, Applied Moment (Center)
ss_moment_center(L, M0, xs) ==
    LET L2 == RDiv(L, Rat(2))
    IN  [V |-> zeros_like(xs),
         M |-> [i \in DOMAIN xs |-> IF RLt(xs[i], L2) THEN Zero ELSE M0]]

\* a fault of cant_point_end: the lever arm measured from the fixed end
cant_point_end_from_fixed_end(L, P, xs) ==
    [V |-> [i \in DOMAIN xs |-> RMul(RNeg(P), Rat(1))],
     M |-> [i \in DOMAIN xs |-> RMul(RNeg(P), xs[i])]]

\* Cantilever, Point Load (End)
cant_point_end(L, P, xs) ==
    [V |-> [i \in DOMAIN xs |-> RMul(RNeg(P), Rat(1))],
     M |-> [i \in DOMAIN xs |-> RMul(RNeg(P), RSub(L, xs[i]))]]

\* Cantilever, UDL
cant_udl(L, w, xs) ==
    [V |-> [i \in DOMAIN xs |-> RMul(RNeg(w), RSub(L, xs[i]))],
     M |-> [i \in DOMAIN xs |->
              RMul(RMul(RNeg(Half), w), RSq(RSub(L, xs[i])))]]

\* Cantilever, Applied Moment (End)
cant_moment_end(L, M0, xs) ==
    [V |-> zeros_like(xs), M |-> full_like(xs, M0)]

\* Fixed-Fixed, UDL
ff_udl(L, w, xs) ==
    LET R == RDiv(RMul(w, L), Rat(2))
        M_A == RDiv(RMul(RNeg(w), RSq(L)), Rat(12))
    IN  [V |-> [i \in DOMAIN xs |-> RSub(R, RMul(w, xs[i]))],
         M |-> [i \in DOMAIN xs |->
                  RAdd(RSub(RMul(R, xs[i]), RMul(RMul(Half, w), RSq(xs[i]))),
                       M_A)]]

\* a fault of ff_point_center: the fixed-end moment of the UDL case, /12
ff_point_center_ma12(L, P, xs) ==
    LET R == RDiv(P, Rat(2))
        L2 == RDiv(L, Rat(2))
        M_A == RDiv(RMul(RNeg(P), L), Rat(12))
    IN  [M |-> [i \in DOMAIN xs |->
                  IF RLe(xs[i], L2) THEN RAdd(RMul(R, xs[i]), M_A)
                  ELSE RAdd(RSub(RMul(R, xs[i]), RMul(P, RSub(xs[i], L2))),
                            M_A)],
         V |-> [i \in DOMAIN xs |-> IF RLt(xs[i], L2) THEN R ELSE RSub(R, P)]]

\* Fixed-Fixed, Point Load (Center)
ff_point_center(L, P, xs) ==
    LET R == RDiv(P, Rat(2))
        L2 == RDiv(L, Rat(2))
        M_A == RDiv(RMul(RNeg(P), L), Rat(8))
    IN  [M |-> [i \in DOMAIN xs |->
                  IF RLe(xs[i], L2) THEN RAdd(RMul(R, xs[i]), M_A)
                  ELSE RAdd(RSub(RMul(R, xs[i]), RMul(P, RSub(xs[i], L2))),
                            M_A)],
         V |-> [i \in DOMAIN xs |-> IF RLt(xs[i], L2) THEN R ELSE RSub(R, P)]]

\* the arrays V and M start as zeros and stay so when no branch matches
no_branch(xs) == [V |-> zeros_like(xs), M |-> zeros_like(xs)]

\* P*(L - a)/L divides by the float L: ZeroDivisionError when L = 0
diagrams_raises(self) ==
    /\ self.beam_type = SS
    /\ self.load_type = PLA
    /\ RIsZero(self.length)

\* Beam.diagrams(n): [raised, x, V, M]
diagrams(self, n) ==
    LET L == self.length
        xs == linspace(Zero, L, n)
        P_or_w == self.load
        b == self.beam_type
        case == self.load_type
        VM == IF b = SS THEN
                  IF case = PLC THEN ss_point_center(L, P_or_w, xs)
                  ELSE IF case = PLA THEN ss_point_any(L, P_or_w, self.a, xs)
                  ELSE IF case = UDL THEN ss_udl(L, P_or_w, xs)
                  ELSE IF case = AMC THEN ss_moment_center(L, P_or_w, xs)
                  ELSE no_branch(xs)
              ELSE IF b = CANT THEN
                  IF case = PLE THEN cant_point_end(L, P_or_w, xs)
                  ELSE IF case = UDL THEN cant_udl(L, P_or_w, xs)
                  ELSE IF case = AME THEN cant_moment_end(L, P_or_w, xs)
                  ELSE no_branch(xs)
              ELSE IF b = FF THEN
                  IF case = UDL THEN ff_udl(L, P_or_w, xs)
                  ELSE IF case = PLC THEN ff_point_center(L, P_or_w, xs)
                  ELSE no_branch(xs)
              ELSE no_branch(xs)
    IN  IF diagrams_raises(self)
        THEN [raised |-> TRUE, x |-> <<>>, V |-> <<>>, M |-> <<>>]
        ELSE [raised |-> FALSE, x |-> xs, V |-> VM.V, M |-> VM.M]

(***************************************************************************)
(* Beam.reactions of the desktop program: the dict d, a function from the  *)
(* reaction labels to numbers (the empty function when no branch matches). *)
(***************************************************************************)
EmptyDict == [k \in {} |-> Zero]

\* Simply Supported, Point Load (Center)
react_ss_point_center(L, P) ==
    ("RA" :> RDiv(P, Rat(2))) @@ ("RB" :> RDiv(P, Rat(2)))

\* a fault of react_ss_point_any: RB repeats the formula of RA
react_ss_point_any_same_rb(L, P, self_a) ==
    LET a0 == IF self_a # None THEN self_a ELSE RDiv(L, Rat(2))
    IN  ("RA" :> RDiv(RMul(P, RSub(L, a0)), L)) @@
        ("RB" :> RDiv(RMul(P, RSub(L, a0)), L))

\* Simply Supported, Point Load (Any Position); L # 0
react_ss_point_any(L, P, self_a) ==
    LET a0 == IF self_a # None THEN self_a ELSE RDiv(L, Rat(2))
    IN  ("RA" :> RDiv(RMul(P, RSub(L, a0)), L)) @@
        ("RB" :> RDiv(RMul(P, a0), L))

\* Simply Supported, UDL
react_ss_udl(L, w) ==
    LET W == RMul(w, L)
    IN  ("RA" :> RDiv(W, Rat(2))) @@ ("RB" :> RDiv(W, Rat(2)))

\* Simply Supported, Applied Moment (Center)
react_ss_moment_center(L, M0) ==
    ("MA@A" :> RDiv(M0, Rat(2))) @@ ("MB@B" :> RDiv(RNeg(M0), Rat(2)))

\* Cantilever, Point Load (End)
react_cant_point_end(L, P) ==
    ("V@fix" :> P) @@ ("M@fix" :> RMul(P, L))

\* Cantilever, UDL
react_cant_udl(L, w) ==
    ("V@fix" :> RMul(w, L)) @@ ("M@fix" :> RDiv(RMul(w, RSq(L)), Rat(2)))

\* a fault of react_cant_moment_end: the zero shear reaction left out
react_cant_moment_end_no_shear(L, M0) ==
    ("M@fix" :> M0)

\* Cantilever, Applied Moment (End)
react_cant_moment_end(L, M0) ==
    ("V@fix" :> Zero) @@ ("M@fix" :> M0)

\* a fault of react_ff_udl: the end moments of the point-load case, /8
react_ff_udl_over8(L, w) ==
    ("RA" :> RDiv(RMul(w, L), Rat(2))) @@
    ("RB" :> RDiv(RMul(w, L), Rat(2))) @@
    ("MA@A" :> RDiv(RMul(w, RSq(L)), Rat(8))) @@
    ("MB@B" :> RDiv(RMul(RNeg(w), RSq(L)), Rat(8)))

\* Fixed-Fixed, UDL
react_ff_udl(L, w) ==
    ("RA" :> RDiv(RMul(w, L), Rat(2))) @@
    ("RB" :> RDiv(RMul(w, L), Rat(2))) @@
    ("MA@A" :> RDiv(RMul(w, RSq(L)), Rat(12))) @@
    ("MB@B" :> RDiv(RMul(RNeg(w), RSq(L)), Rat(12)))

\* Fixed-Fixed, Point Load (Center)
react_ff_point_center(L, P) ==
    ("RA" :> RDiv(P, Rat(2))) @@
    ("RB" :> RDiv(P, Rat(2))) @@
    ("MA@A" :> RDiv(RMul(P, L), Rat(8))) @@
    ("MB@B" :> RDiv(RMul(RNeg(P), L), Rat(8)))

\* P*(L - a)/L and P*a/L divide by the float L: ZeroDivisionError when L = 0
reactions_raises(self) ==
    /\ self.beam_type = SS
    /\ self.load_type = PLA
    /\ RIsZero(self.length)

\* Beam.reactions(): [raised, d]
reactions(self) ==
    LET L == self.length
        case == self.load_type
        b == self.beam_type
        dd == IF b = SS THEN
                  IF case = PLC THEN react_ss_point_center(L, self.load)
                  ELSE IF case = PLA THEN react_ss_point_any(L, self.load, self.a)
                  ELSE IF case = UDL THEN react_ss_udl(L, self.load)
                  ELSE IF case = AMC THEN react_ss_moment_center(L, self.load)
                  ELSE EmptyDict
              ELSE IF b = CANT THEN
                  IF case = PLE THEN react_cant_point_end(L, self.load)
                  ELSE IF case = UDL THEN react_cant_udl(L, self.load)
                  ELSE IF case = AME THEN react_cant_moment_end(L, self.load)
                  ELSE EmptyDict
              ELSE IF b = FF THEN
                  IF case = UDL THEN react_ff_udl(L, self.load)
                  ELSE IF case = PLC THEN react_ff_point_center(L, self.load)
                  ELSE EmptyDict
              ELSE EmptyDict
    IN  IF reactions_raises(self)
        THEN [raised |-> TRUE, d |-> EmptyDict]
        ELSE [raised |-> FALSE, d |-> dd]

(***************************************************************************)
(* Beam.diagrams of the web dashboard, one operator per branch.  Each    *)
(* returns the pair of arrays [V, M] over the samples xs.                  *)
(***************************************************************************)
\* Simply Supported, Point Load (Center)
web_ss_point_center(L, P, xs) ==
    LET R == RDiv(P, Rat(2))
        L2 == RDiv(L, Rat(2))
    IN  [V |-> [i \in DOMAIN xs |-> IF RLt(xs[i], L2) THEN R ELSE RSub(R, P)],
         M |-> [i \in DOMAIN xs |->
                  IF RLe(xs[i], L2) THEN RMul(R, xs[i])
                  ELSE RSub(RMul(R, xs[i]), RMul(P, RSub(xs[i], L2)))]]

\* Simply Supported, Point Load (Any Position); L # 0
web_ss_point_any(L, P, self_a, xs) ==
    LET a0 == IF self_a # None THEN self_a ELSE RDiv(L, Rat(2))
        R1 == RDiv(RMul(P, RSub(L, a0)), L)
    IN  [V |-> [i \in DOMAIN xs |-> IF RLt(xs[i], a0) THEN R1 ELSE RSub(R1, P)],
         M |-> [i \in DOMAIN xs |->
                  IF RLt(xs[i], a0) THEN RMul(R1, xs[i])
                  ELSE RSub(RMul(R1, xs[i]), RMul(P, RSub(xs[i], a0)))]]

\* Simply Supported, UDL
web_ss_udl(L, w, xs) ==
    LET R == RDiv(RMul(w, L), Rat(2))
    IN  [V |-> [i \in DOMAIN xs |-> RSub(R, RMul(w, xs[i]))],
         M |-> [i \in DOMAIN xs |->
                  RSub(RMul(R, xs[i]), RMul(RMul(Half, w), RSq(xs[i])))]]

\* Simply Supported, Applied Moment (Center)
web_ss_moment_center(L, M0, xs) ==
    LET L2 == RDiv(L, Rat(2))
    IN  [V |-> zeros_like(xs),
         M |-> [i \in DOMAIN xs |-> IF RLt(xs[i], L2) THEN Zero ELSE M0]]

\* Cantilever, Point Load (End)
web_cant_point_end(L, P, xs) ==
    [V |-> [i \in DOMAIN xs |-> RMul(RNeg(P), Rat(1))],
     M |-> [i \in DOMAIN xs |-> RMul(RNeg(P), RSub(L, xs[i]))]]

\* Cantilever, UDL
web_cant_udl(L, w, xs) ==
    [V |-> [i \in DOMAIN xs |-> RMul(RNeg(w), RSub(L, xs[i]))],
     M |-> [i \in DOMAIN xs |->
              RMul(RMul(RNeg(Half), w), RSq(RSub(L, xs[i])))]]

\* Cantilever, Applied Moment (End)
web_cant_moment_end(L, M0, xs) ==
    [V |-> zeros_like(xs), M |-> full_like(xs, M0)]

\* Fixed-Fixed, UDL
web_ff_udl(L, w, xs) ==
    LET R == RDiv(RMul(w, L), Rat(2))
        M_A == RDiv(RMul(RNeg(w), RSq(L)), Rat(12))
    IN  [V |-> [i \in DOMAIN xs |-> RSub(R, RMul(w, xs[i]))],
         M |-> [i \in DOMAIN xs |->
                  RAdd(RSub(RMul(R, xs[i]), RMul(RMul(Half, w), RSq(xs[i]))),
                       M_A)]]

\* Fixed-Fixed, Point Load (Center)
web_ff_point_center(L, P, xs) ==
    LET R == RDiv(P, Rat(2))
        L2 == RDiv(L, Rat(2))
        M_A == RDiv(RMul(RNeg(P), L), Rat(8))
    IN  [M |-> [i \in DOMAIN xs |->
                  IF RLe(xs[i], L2) THEN RAdd(RMul(R, xs[i]), M_A)
                  ELSE RAdd(RSub(RMul(R, xs[i]), RMul(P, RSub(xs[i], L2))),
                            M_A)],
         V |-> [i \in DOMAIN xs |-> IF RLt(xs[i], L2) THEN R ELSE RSub(R, P)]]

\* the arrays V and M start as zeros and stay so when no branch matches
web_no_branch(xs) == [V |-> zeros_like(xs), M |-> zeros_like(xs)]

\* P*(L - a)/L divides by the float L: ZeroDivisionError when L = 0
web_diagrams_raises(self) ==
    /\ self.beam_type = SS
    /\ self.load_type = PLA
    /\ RIsZero(self.length)

\* Beam.diagrams(n): [raised, x, V, M]
web_diagrams(self, n) ==
    LET L == self.length
        xs == linspace(Zero, L, n)
        P_or_w == self.load
        b == self.beam_type
        case == self.load_type
        VM == IF b = SS THEN
                  IF case = PLC THEN web_ss_point_center(L, P_or_w, xs)
                  ELSE IF case = PLA THEN web_ss_point_any(L, P_or_w, self.a, xs)
                  ELSE IF case = UDL THEN web_ss_udl(L, P_or_w, xs)
                  ELSE IF case = AMC THEN web_ss_moment_center(L, P_or_w, xs)
                  ELSE web_no_branch(xs)
              ELSE IF b = CANT THEN
                  IF case = PLE THEN web_cant_point_end(L, P_or_w, xs)
                  ELSE IF case = UDL THEN web_cant_udl(L, P_or_w, xs)
                  ELSE IF case = AME THEN web_cant_moment_end(L, P_or_w, xs)
                  ELSE web_no_branch(xs)
              ELSE IF b = FF THEN
                  IF case = UDL THEN web_ff_udl(L, P_or_w, xs)
                  ELSE IF case = PLC THEN web_ff_point_center(L, P_or_w, xs)
                  ELSE web_no_branch(xs)
              ELSE web_no_branch(xs)
    IN  IF web_diagrams_raises(self)
        THEN [raised |-> TRUE, x |-> <<>>, V |-> <<>>, M |-> <<>>]
        ELSE [raised |-> FALSE, x |-> xs, V |-> VM.V, M |-> VM.M]

(***************************************************************************)
(* Beam.reactions of the web dashboard: the dict d, a function from the  *)
(* reaction labels to numbers (the empty function when no branch matches). *)
(***************************************************************************)
\* Simply Supported, Point Load (Center)
web_react_ss_point_center(L, P) ==
    ("RA" :> RDiv(P, Rat(2))) @@ ("RB" :> RDiv(P, Rat(2)))

\* Simply Supported, Point Load (Any Position); L # 0
web_react_ss_point_any(L, P, self_a) ==
    LET a0 == IF self_a # None THEN self_a ELSE RDiv(L, Rat(2))
    IN  ("RA" :> RDiv(RMul(P, RSub(L, a0)), L)) @@
        ("RB" :> RDiv(RMul(P, a0), L))

\* Simply Supported, UDL
web_react_ss_udl(L, w) ==
    LET W == RMul(w, L)
    IN  ("RA" :> RDiv(W, Rat(2))) @@ ("RB" :> RDiv(W, Rat(2)))

\* Simply Supported, Applied Moment (Center)
web_react_ss_moment_center(L, M0) ==
    ("MA@A" :> RDiv(M0, Rat(2))) @@ ("MB@B" :> RDiv(RNeg(M0), Rat(2)))

\* Cantilever, Point Load (End)
web_react_cant_point_end(L, P) ==
    ("V@fix" :> P) @@ ("M@fix" :> RMul(P, L))

\* Cantilever, UDL
web_react_cant_udl(L, w) ==
    ("V@fix" :> RMul(w, L)) @@ ("M@fix" :> RDiv(RMul(w, RSq(L)), Rat(2)))

\* Cantilever, Applied Moment (End)
web_react_cant_moment_end(L, M0) ==
    ("V@fix" :> Zero) @@ ("M@fix" :> M0)

\* Fixed-Fixed, UDL
web_react_ff_udl(L, w) ==
    ("RA" :> RDiv(RMul(w, L), Rat(2))) @@
    ("RB" :> RDiv(RMul(w, L), Rat(2))) @@
    ("MA@A" :> RDiv(RMul(w, RSq(L)), Rat(12))) @@
    ("MB@B" :> RDiv(RMul(RNeg(w), RSq(L)), Rat(12)))

\* Fixed-Fixed, Point Load (Center)
web_react_ff_point_center(L, P) ==
    ("RA" :> RDiv(P, Rat(2))) @@
    ("RB" :> RDiv(P, Rat(2))) @@
    ("MA@A" :> RDiv(RMul(P, L), Rat(8))) @@
    ("MB@B" :> RDiv(RMul(RNeg(P), L), Rat(8)))

\* P*(L - a)/L and P*a/L divide by the float L: ZeroDivisionError when L = 0
web_reactions_raises(self) ==
    /\ self.beam_type = SS
    /\ self.load_type = PLA
    /\ RIsZero(self.length)

\* Beam.reactions(): [raised, d]
web_reactions(self) ==
    LET L == self.length
        case == self.load_type
        b == self.beam_type
        dd == IF b = SS THEN
                  IF case = PLC THEN web_react_ss_point_center(L, self.load)
                  ELSE IF case = PLA THEN web_react_ss_point_any(L, self.load, self.a)
                  ELSE IF case = UDL THEN web_react_ss_udl(L, self.load)
                  ELSE IF case = AMC THEN web_react_ss_moment_center(L, self.load)
                  ELSE EmptyDict
              ELSE IF b = CANT THEN
                  IF case = PLE THEN web_react_cant_point_end(L, self.load)
                  ELSE IF case = UDL THEN web_react_cant_udl(L, self.load)
                  ELSE IF case = AME THEN web_react_cant_moment_end(L, self.load)
                  ELSE EmptyDict
              ELSE IF b = FF THEN
                  IF case = UDL THEN web_react_ff_udl(L, self.load)
                  ELSE IF case = PLC THEN web_react_ff_point_center(L, self.load)
                  ELSE EmptyDict
              ELSE EmptyDict
    IN  IF web_reactions_raises(self)
        THEN [raised |-> TRUE, d |-> EmptyDict]
        ELSE [raised |-> FALSE, d |-> dd]

(***************************************************************************)
(* Beam.deflection: double trapezoidal integration of k = M/(E*I) over x,  *)
(* then the boundary conditions.                                           *)
(***************************************************************************)
\* np.cumsum(np.concatenate([[0.0], 0.5*(f[1:] + f[:-1]) * np.diff(x)])),
\* the first k entries
RECURSIVE cumtrapz(_, _, _)
cumtrapz(f, xs, k) ==
    IF k = 1 THEN <<Zero>>
    ELSE LET prev == cumtrapz(f, xs, k - 1)
         IN  Append(prev,
                    RAdd(prev[k - 1],
                         RMul(RMul(Half, RAdd(f[k], f[k - 1])),
                              RSub(xs[k], xs[k - 1]))))

\* -I2[-1] / (x[-1] if x[-1] != 0 else 1.0)
end_correction(I2, xs) ==
    LET last == Len(xs)
    IN  RDiv(RNeg(I2[last]), IF xs[last] # Zero THEN xs[last] ELSE Rat(1))

\* a fault of deflection_C1: the correction without its minus sign
deflection_C1_plus(beam_type, I2, xs) ==
    IF beam_type = CANT THEN Zero
    ELSE IF beam_type = SS THEN RNeg(end_correction(I2, xs))
    ELSE IF beam_type = FF THEN RNeg(end_correction(I2, xs))
    ELSE Zero

\* the constant C1 of the desktop program, by beam type (C2 is 0 throughout)
deflection_C1(beam_type, I2, xs) ==
    IF beam_type = CANT THEN Zero
    ELSE IF beam_type = SS THEN end_correction(I2, xs)
    ELSE IF beam_type = FF THEN end_correction(I2, xs)
    ELSE Zero

\* the constant C1 of the web dashboard: every beam type but Cantilever
web_deflection_C1(beam_type, I2, xs) ==
    IF beam_type = CANT THEN Zero
    ELSE end_correction(I2, xs)

\* a fault of deflection_zero_stiffness: the guard tests E alone
deflection_zero_stiffness_E_only(self) == self.E = Zero

\* if EI == 0: return np.zeros_like(x)
deflection_zero_stiffness(self) == RMul(self.E, self.I) = Zero

web_deflection_zero_stiffness(self) == RMul(self.E, self.I) = Zero

\* what follows the guard, for E*I = 0 too: M / EI is an elementwise numpy
\* division, which yields inf or nan for a zero divisor; NonFinite stands
\* for any such value
NonFinite == <<1, 0>>
curvature(Ms, EI) ==
    [i \in DOMAIN Ms |-> IF EI = Zero THEN NonFinite ELSE RDiv(Ms[i], EI)]

\* a fault of second_integral: the curvature integrated once only
second_integral_once(k, xs) ==
    cumtrapz(k, xs, Len(xs))

\* I1 = cumtrapz(M / EI, x); I2 = cumtrapz(I1, x)
second_integral(k, xs) ==
    cumtrapz(cumtrapz(k, xs, Len(xs)), xs, Len(xs))

\* I2 + C1*x + C2, with C2 = 0.0
integrate(I2, C1, xs) ==
    [i \in DOMAIN xs |-> RAdd(RAdd(I2[i], RMul(C1, xs[i])), Zero)]

deflection_from(self, xs, I2) ==
    integrate(I2, deflection_C1(self.beam_type, I2, xs), xs)

web_deflection_from(self, xs, I2) ==
    integrate(I2, web_deflection_C1(self.beam_type, I2, xs), xs)

\* a non-finite curvature makes every later sum and product non-finite
non_finite(k) == \E i \in DOMAIN k : k[i] = NonFinite

\* Beam.deflection(x, M) of the desktop program
deflection(self, xs, Ms) ==
    IF deflection_zero_stiffness(self) THEN zeros_like(xs)
    ELSE IF non_finite(curvature(Ms, RMul(self.E, self.I)))
    THEN [i \in DOMAIN xs |-> NonFinite]
    ELSE deflection_from(self, xs,
             second_integral(curvature(Ms, RMul(self.E, self.I)), xs))

\* Beam.deflection(x, M) of the web dashboard
web_deflection(self, xs, Ms) ==
    IF web_deflection_zero_stiffness(self) THEN zeros_like(xs)
    ELSE IF non_finite(curvature(Ms, RMul(self.E, self.I)))
    THEN [i \in DOMAIN xs |-> NonFinite]
    ELSE web_deflection_from(self, xs,
             second_integral(curvature(Ms, RMul(self.E, self.I)), xs))

(***************************************************************************)
(* Beam.bending_stress and Beam.safety_factor.                             *)
(***************************************************************************)
\* def diagrams(self, n=601)
DefaultN == 601

\* the larger of two numbers
RMax(r, s) == IF RLt(r, s) THEN s ELSE r

\* np.max(np.abs(M)) over the entries lo..hi, by halving the range
RECURSIVE max_abs_range(_, _, _)
max_abs_range(Ms, lo, hi) ==
    IF lo = hi THEN RAbs(Ms[lo])
    ELSE RMax(max_abs_range(Ms, lo, (lo + hi) \div 2),
              max_abs_range(Ms, (lo + hi) \div 2 + 1, hi))

max_abs(Ms) == max_abs_range(Ms, 1, Len(Ms))

\* a fault of stress_of: the stress without the fibre distance c
stress_of_no_c(self, Mabs) ==
    IF self.I = Zero \/ self.c = None THEN None
    ELSE RDiv(Mabs, self.I)

\* if self.I == 0 or self.c is None: return None
\* return (Mabs * self.c) / self.I
stress_of(self, Mabs) ==
    IF self.I = Zero \/ self.c = None THEN None
    ELSE RDiv(RMul(Mabs, self.c), self.I)

\* what bending_stress makes of the [raised, x, V, M] of diagrams(): the
\* error of diagrams() comes before the test of I and c
stress_from(self, r) ==
    IF r.raised THEN [raised |-> TRUE, value |-> None]
    ELSE [raised |-> FALSE, value |-> stress_of(self, max_abs(r.M))]

\* Beam.bending_stress(): [raised, value]
bending_stress(self) == stress_from(self, diagrams(self, DefaultN))

web_bending_stress(self) == stress_from(self, web_diagrams(self, DefaultN))

\* Python's truth value of self.yield_strength: None and 0.0 are false
truthy(v) == v # None /\ v # Zero

\* a fault of factor_of: a zero stress is divided by
factor_of_divides_by_zero(self, s) ==
    IF s.raised THEN [raised |-> TRUE, value |-> None]
    ELSE [raised |-> FALSE,
          value |-> IF truthy(self.yield_strength) /\ s.value \notin {None}
                    THEN RDiv(self.yield_strength, s.value)
                    ELSE None]

\* if self.yield_strength and s not in (None, 0):
\*     return self.yield_strength / s
\* return None
factor_of(self, s) ==
    IF s.raised THEN [raised |-> TRUE, value |-> None]
    ELSE [raised |-> FALSE,
          value |-> IF truthy(self.yield_strength)
                       /\ s.value \notin {None, Zero}
                    THEN RDiv(self.yield_strength, s.value)
                    ELSE None]

\* Beam.safety_factor(): [raised, value]
safety_factor(self) == factor_of(self, bending_stress(self))

web_safety_factor(self) == factor_of(self, web_bending_stress(self))

(***************************************************************************)
(* The state machine.  A front end constructs a fresh Beam per analysis    *)
(* request and calls its operations; the operations are pure, so the       *)
(* state keeps the Beam and what each operation last returned for it.      *)
(***************************************************************************)
VARIABLES
    impl,      \* which copy of the Beam class: "desktop" or "web"
    beam,      \* the fields of the Beam object
    outcome,   \* per operation: "none" (not called), "returned", "raised"
    n,         \* the sample count of the last diagrams(n) call, 0 if none
    x, V, M,   \* the arrays diagrams(n) returned
    d,         \* the dict reactions() returned
    y,         \* the array deflection(x, M) returned
    stress,    \* what bending_stress() returned
    sf,        \* what safety_factor() returned
    form,      \* the input fields of the front end
    ui,        \* what the last front-end action did and showed
    cache,     \* the web dashboard's compute_all cache: key -> result
    project,   \* the project file last saved
    widgets,   \* widget state besides the input fields: whether the entry
               \* of a and the Plot button are enabled, the web preset
    pressed    \* history: the input fields at the presses of Calculate

vars == <<impl, beam, outcome, n, x, V, M, d, y, stress, sf,
          form, ui, cache, project, widgets, pressed>>

\* no request yet at the front end: these hold while a specification
\* exercises the Beam class alone
NoForm == [absent |-> TRUE]
NoUi == [action |-> "none"]
EmptyCache == [k \in {} |-> NoForm]
NoProject == [file |-> NoForm, loaded_json |-> NoForm]
\* ttk.Entry(frame_load) is created enabled, the Plot button with
\* state="disabled"; the preset selectbox starts at its first option
NoPreset == "(none)"
InitialWidgets ==
    [entry_a |-> "normal", btn_plot |-> "disabled", preset |-> NoPreset]
\* pressed.last: the fields at the last press of Calculate; pressed.ok: the
\* fields at the last press that completed
NoPress == [last |-> NoForm, ok |-> NoForm]
FrontIdle ==
    /\ form = NoForm /\ ui = NoUi /\ cache = EmptyCache
    /\ project = NoProject
    /\ widgets = InitialWidgets /\ pressed = NoPress

Operations ==
    {"diagrams", "reactions", "deflection", "bending_stress", "safety_factor"}

\* E, I, c and yield_strength of a request
Moduli == {Rat(i) : i \in 0..MaxE}
Inertias == {Rat(i) : i \in 0..MaxI}
Section(E, I, c, yield_strength) ==
    [E |-> E, I |-> I, c |-> c, yield_strength |-> yield_strength]
\* diagrams and reactions read neither E, I, c nor yield_strength: where
\* only they are called the requests carry this section
UnitSection == Section(Rat(1), Rat(1), Rat(1), None)

Construct(im, bt, lt, len, ld, sec, pos) ==
    IF im = "desktop"
    THEN Beam(bt, lt, len, ld, sec.E, sec.I, sec.c, "Custom",
              sec.yield_strength, pos)
    ELSE web_Beam(bt, lt, len, ld, sec.E, sec.I, sec.c, "Custom",
                  sec.yield_strength, pos)

\* both front ends hand a position only with Point Load (Any Position),
\* and None with every other load type
PositionsFor(lt) == IF lt = PLA THEN Positions ELSE {None}

\* no Beam object yet (program start), or the last one was dropped
NoBeam == [absent |-> TRUE]

Init ==
    /\ impl \in Impls
    /\ beam = NoBeam
    /\ outcome = [o \in Operations |-> "none"]
    /\ n = 0
    /\ x = <<>> /\ V = <<>> /\ M = <<>>
    /\ d = EmptyDict
    /\ y = <<>>
    /\ stress = None /\ sf = None
    /\ FrontIdle

\* a new analysis request: Beam(...) is constructed from the request's inputs
NewBeam ==
    /\ beam = NoBeam
    /\ \E bt \in BeamTypes, lt \in LoadTypes, len \in Lengths, ld \in Loads :
          \E pos \in PositionsFor(lt) :
              beam' = Construct(impl, bt, lt, len, ld, UnitSection, pos)
    /\ UNCHANGED <<impl, outcome, n, x, V, M, d, y, stress, sf,
                 form, ui, cache, project, widgets, pressed>>

\* the request is over: the Beam and what it returned go out of scope
Release ==
    /\ beam # NoBeam
    /\ beam' = NoBeam
    /\ outcome' = [o \in Operations |-> "none"]
    /\ n' = 0
    /\ x' = <<>> /\ V' = <<>> /\ M' = <<>>
    /\ d' = EmptyDict
    /\ y' = <<>>
    /\ stress' = None /\ sf' = None
    /\ UNCHANGED <<impl, form, ui, cache, project, widgets, pressed>>

\* a fault of self_after: diagrams keeps the position it defaulted
self_after_storing_a(op, self) ==
    IF op = "diagrams" /\ self.a = None
    THEN [self EXCEPT !.a = RMul(self.length, Half)]
    ELSE self

\* the fields of the Beam after one of its methods ran: only __init__
\* assigns to self; the methods work on locals (a = self.a if ... else L/2)
self_after(op, self) ==
    self

\* x, V, M = beam.diagrams(k)
DiagramsN(k) ==
    /\ beam # NoBeam
    /\ LET r == IF impl = "desktop" THEN diagrams(beam, k)
                ELSE web_diagrams(beam, k)
       IN  /\ outcome' = [outcome EXCEPT !["diagrams"] =
                             IF r.raised THEN "raised" ELSE "returned"]
           /\ n' = k
           /\ x' = r.x /\ V' = r.V /\ M' = r.M
           /\ beam' = self_after("diagrams", beam)
           /\ UNCHANGED <<impl, d, y, stress, sf,
                 form, ui, cache, project, widgets, pressed>>

Diagrams == \E k \in SampleCounts : DiagramsN(k)

\* x, V, M = beam.diagrams(), the sample count left at its default
DiagramsDefault == DiagramsN(DefaultN)

\* d = beam.reactions()
Reactions ==
    /\ beam # NoBeam
    /\ LET r == IF impl = "desktop" THEN reactions(beam)
                ELSE web_reactions(beam)
       IN  /\ outcome' = [outcome EXCEPT !["reactions"] =
                             IF r.raised THEN "raised" ELSE "returned"]
           /\ d' = r.d
           /\ beam' = self_after("reactions", beam)
           /\ UNCHANGED <<impl, n, x, V, M, y, stress, sf,
                 form, ui, cache, project, widgets, pressed>>

\* y = beam.deflection(x, M), on the arrays at hand
Deflection ==
    /\ beam # NoBeam
    /\ x # <<>>
    /\ y' = IF impl = "desktop" THEN deflection(beam, x, M)
            ELSE web_deflection(beam, x, M)
    /\ outcome' = [outcome EXCEPT !["deflection"] = "returned"]
    /\ beam' = self_after("deflection", beam)
    /\ UNCHANGED <<impl, n, x, V, M, d, stress, sf,
                 form, ui, cache, project, widgets, pressed>>

\* stress = beam.bending_stress()
BendingStress ==
    /\ beam # NoBeam
    /\ \E r \in {IF impl = "desktop" THEN bending_stress(beam)
                  ELSE web_bending_stress(beam)} :
          /\ outcome' = [outcome EXCEPT !["bending_stress"] =
                            IF r.raised THEN "raised" ELSE "returned"]
          /\ stress' = r.value
    /\ beam' = self_after("bending_stress", beam)
    /\ UNCHANGED <<impl, n, x, V, M, d, y, sf,
                 form, ui, cache, project, widgets, pressed>>

\* sf = beam.safety_factor()
SafetyFactor ==
    /\ beam # NoBeam
    /\ \E r \in {IF impl = "desktop" THEN safety_factor(beam)
                  ELSE web_safety_factor(beam)} :
          /\ outcome' = [outcome EXCEPT !["safety_factor"] =
                            IF r.raised THEN "raised" ELSE "returned"]
          /\ sf' = r.value
    /\ beam' = self_after("safety_factor", beam)
    /\ UNCHANGED <<impl, n, x, V, M, d, y, stress,
                 form, ui, cache, project, widgets, pressed>>

Next == NewBeam \/ Diagrams \/ Reactions \/ Release

Spec == Init /\ [][Next]_vars

(***************************************************************************)
(* deflection as a function of its arguments: x is any strictly increasing *)
(* grid from 0 and M any array over it, not only what diagrams returns.    *)
(***************************************************************************)
Steps == {Frac(1, 2), Rat(1)}
GridLengths == 2..3

RECURSIVE GridsOfLength(_)
GridsOfLength(k) ==
    IF k = 1 THEN {<<Zero>>}
    ELSE {Append(g, RAdd(g[k - 1], st)) : g \in GridsOfLength(k - 1), st \in Steps}

MomentValues == {Rat(i) : i \in -MaxM..MaxM}

InitDeflection ==
    /\ impl \in Impls
    /\ \E k \in GridLengths :
          /\ x \in GridsOfLength(k)
          /\ M \in [1..k -> MomentValues]
          /\ V = [i \in 1..k |-> Zero]
          /\ n = k
    /\ \E bt \in BeamTypes, E \in Moduli, I \in Inertias :
          beam = Construct(impl, bt, UDL, x[Len(x)], Zero,
                           Section(E, I, Rat(1), None), None)
    /\ outcome = [o \in Operations |-> "none"]
    /\ d = EmptyDict
    /\ y = <<>>
    /\ stress = None /\ sf = None
    /\ FrontIdle

NextDeflection == Deflection

SpecDeflection == InitDeflection /\ [][NextDeflection]_vars

(***************************************************************************)
(* The stress pipeline of a request: x, V, M = beam.diagrams(), then       *)
(* stress = beam.bending_stress(), then sf = beam.safety_factor().         *)
(***************************************************************************)
\* the nine defined pairs and one pair no branch handles
StressCases == DefinedCases \cup {<<"Propped", UDL>>}
StressLengths == {Rat(0), Rat(2)}
StressLoads == {Rat(-2), Rat(0)}
\* I, c and yield_strength: each of them unset or zero in turn
StressSections ==
    {Section(Rat(1), Rat(2), Rat(1), Rat(3)),
     Section(Rat(1), Rat(0), Rat(1), Rat(3)),
     Section(Rat(1), Rat(2), None, Rat(3)),
     Section(Rat(1), Rat(2), Rat(0), Rat(3)),
     Section(Rat(1), Rat(2), Rat(1), None),
     Section(Rat(1), Rat(2), Rat(1), Rat(0))}
StressPositionsFor(lt) ==
    IF lt = PLA THEN {None, Frac(1, 2), Frac(5, 2)} ELSE {None}

InitStress ==
    /\ impl \in Impls
    /\ \E case \in StressCases, len \in StressLengths, ld \in StressLoads :
          \E sec \in StressSections, pos \in StressPositionsFor(case[2]) :
              /\ ~(impl = "web" /\ web_Beam_raises(sec.c))
              /\ beam = Construct(impl, case[1], case[2], len, ld, sec, pos)
    /\ outcome = [o \in Operations |-> "none"]
    /\ n = 0
    /\ x = <<>> /\ V = <<>> /\ M = <<>>
    /\ d = EmptyDict
    /\ y = <<>>
    /\ stress = None /\ sf = None
    /\ FrontIdle

NextStress ==
    \/ outcome["diagrams"] = "none" /\ DiagramsDefault
    \/ /\ outcome["diagrams"] # "none"
       /\ outcome["bending_stress"] = "none"
       /\ BendingStress
    \/ /\ outcome["bending_stress"] = "returned"
       /\ outcome["safety_factor"] = "none"
       /\ SafetyFactor

SpecStress == InitStress /\ [][NextStress]_vars

(***************************************************************************)
(* The front ends.  The desktop form keeps entry texts, the web form       *)
(* widget values; a number stands for a text that float() parses to it and *)
(* None for an empty a or Sy.  The forms are in SI units (the web radio    *)
(* at "Metric (SI)", whose conversion factors are all 1.0).                *)
(***************************************************************************)
PLCFF == "Point Load (Center) [Fixed-Fixed]"
Metric == "Metric (SI)"

Form(beam_type, load_type, L, Load, unit, a, material, E, Sy, I, c) ==
    [beam_type |-> beam_type, load_type |-> load_type, L |-> L,
     Load |-> Load, unit |-> unit, a |-> a, material |-> material,
     E |-> E, Sy |-> Sy, I |-> I, c |-> c]

\* "Any Position" in load_type
any_position(load_type) == load_type = PLA

\* what an action leaves behind: whether it ended in an error message, the
\* Beam it built, the Beam methods it reached, the results it showed, and
\* (desktop) root.beam_obj
NoResult == [absent |-> TRUE]
Result(b, s, f, re) == [beam |-> b, stress |-> s, sf |-> f, react |-> re]

\* how a place that reports results renders the stress and the safety
\* factor: "number", "N/A", a dash, or "omitted" when the place has no
\* text for the quantity
Text(s, f) == [stress |-> s, sf |-> f]
NoText == Text("none", "none")

\* _show_and_fill_results: the Max sigma line always, the n line if sfv
show_and_fill_results(s, f) ==
    Text(IF s # None THEN "number" ELSE "N/A",
         IF truthy(f) THEN "number" ELSE "omitted")

\* do_results: res.append(Max sigma ...); if sf: res.append(...)
results_panel(s, f) ==
    Text(IF s # None THEN "number" ELSE "N/A",
         IF truthy(f) THEN "number" ELSE "omitted")

\* do_pdf: the summary page has Max |V|, Max |M|, Max |delta| and the
\* reactions, and no line for sigma or n
pdf_report(s, f) ==
    Text("omitted", "omitted")

\* do_xlsx: the last two values of the Summary sheet
xlsx_summary(s, f) ==
    Text(IF s # None THEN "number" ELSE "N/A",
         IF truthy(f) THEN "number" ELSE "dash")

\* do_docx: if stress is not None: one paragraph with sigma and n
docx_report(s, f) ==
    IF s # None
    THEN Text("number", IF truthy(f) THEN "number" ELSE "dash")
    ELSE Text("omitted", "omitted")

\* the text of an action that got results (the plots and the CSV file
\* carry the arrays only)
render(action, res) ==
    IF res = NoResult THEN NoText
    ELSE IF action = "calculate" THEN show_and_fill_results(res.stress, res.sf)
    ELSE IF action = "do_results" THEN results_panel(res.stress, res.sf)
    ELSE IF action = "do_pdf" THEN pdf_report(res.stress, res.sf)
    ELSE IF action = "do_xlsx" THEN xlsx_summary(res.stress, res.sf)
    ELSE IF action = "do_docx" THEN docx_report(res.stress, res.sf)
    ELSE NoText

Shown(action, r, obj) ==
    [action |-> action, error |-> r.error, built |-> r.built,
     calls |-> r.calls, result |-> r.result, beam_obj |-> obj,
     text |-> render(action, r.result)]
Rejected == [error |-> TRUE, built |-> NoBeam, calls |-> {},
             result |-> NoResult]
\* nothing done yet
Nothing == [error |-> FALSE, built |-> NoBeam, calls |-> {},
            result |-> NoResult]
NoShown == Shown("none", Nothing, NoBeam)

\* x, V, M = beam.diagrams(); y = beam.deflection(x, M);
\* stress = beam.bending_stress(); sf = beam.safety_factor();
\* beam.reactions(): an exception ends the sequence.  r is what diagrams()
\* gives and re what reactions() gives; deflection raises nothing
analysis(b, r, s, f, re) ==
    IF r.raised
    THEN [error |-> TRUE, built |-> b, calls |-> {"diagrams"},
          result |-> NoResult]
    ELSE IF re.raised
    THEN [error |-> TRUE, built |-> b, calls |-> Operations,
          result |-> NoResult]
    ELSE [error |-> FALSE, built |-> b, calls |-> Operations,
          result |-> Result(b, s.value, f.value, re.d)]

\* BeamApp.calculate: the test of the position a
calculate_rejects(f) ==
    /\ any_position(f.load_type)
    /\ \/ f.a = None
       \/ ~(RLe(Zero, f.a) /\ RLe(f.a, f.L))

\* BeamApp.calculate: beam = Beam(beam_type, load_type, L, Load, E, I, c,
\* mat, Sy, a=a)
calculate_beam(f) ==
    Beam(IF f.load_type = PLCFF THEN FF ELSE f.beam_type,
         IF f.load_type = PLCFF THEN PLC ELSE f.load_type,
         f.L, f.Load, f.E, f.I, f.c, f.material, f.Sy,
         IF any_position(f.load_type) THEN f.a ELSE None)

\* BeamApp.calculate
calculate(f) ==
    IF calculate_rejects(f) THEN Rejected
    ELSE analysis(calculate_beam(f),
                  diagrams(calculate_beam(f), DefaultN),
                  bending_stress(calculate_beam(f)),
                  safety_factor(calculate_beam(f)),
                  reactions(calculate_beam(f)))

\* validate_inputs(L, a, I, c, E): the set of problems
validate_inputs(L, a, I, c, E) ==
    (IF L = None \/ RLe(L, Zero) THEN {"Beam length L must be > 0."} ELSE {})
    \cup (IF I = None \/ RLe(I, Zero)
          THEN {"Area moment I must be > 0."} ELSE {})
    \cup (IF c = None \/ RLe(c, Zero)
          THEN {"Extreme fiber distance c must be > 0."} ELSE {})
    \cup (IF E = None \/ RLe(E, Zero)
          THEN {"Young's Modulus E must be > 0."} ELSE {})
    \cup (IF a # None /\ RLt(a, Zero)
          THEN {"Load position a must be >= 0."} ELSE {})
    \cup (IF a # None /\ L # None /\ RLt(L, a)
          THEN {"Load position a must be <= L."} ELSE {})

\* the arguments a web action hands to compute_all
args_of(f) ==
    [beam_type |-> f.beam_type, load_type |-> f.load_type, L |-> f.L,
     load_val |-> f.Load, E |-> f.E, I |-> f.I, c |-> f.c,
     material |-> f.material, Sy |-> f.Sy, a |-> f.a]

compute_all_beam(k) ==
    web_Beam(k.beam_type, k.load_type, k.L, k.load_val, k.E, k.I, k.c,
             k.material, k.Sy, k.a)

\* the body of compute_all
compute_all(k) ==
    IF web_Beam_raises(k.c) THEN Rejected
    ELSE analysis(compute_all_beam(k),
                  web_diagrams(compute_all_beam(k), DefaultN),
                  web_bending_stress(compute_all_beam(k)),
                  web_safety_factor(compute_all_beam(k)),
                  web_reactions(compute_all_beam(k)))

\* a fault of cache_key: the position a is left out of the key
cache_key_without_a(k) ==
    [k EXCEPT !.a = None]

\* @st.cache_data: the key is the tuple of all the arguments
cache_key(k) ==
    k

\* a result the cache serves: no Beam is built and no method runs
served(res) ==
    [error |-> FALSE, built |-> NoBeam, calls |-> {}, result |-> res]

\* a fault of root_beam_obj: only the first beam is ever stored
root_beam_obj_first(r, old) ==
    IF r.error \/ old # NoBeam THEN old ELSE r.built

\* self.root.beam_obj = beam is the last statement of the try block: an
\* exception before it leaves the attribute as it was
root_beam_obj(r, old) ==
    IF r.error THEN old ELSE r.built

\* Calculate of the desktop form
Calculate ==
    /\ impl = "desktop"
    /\ form # NoForm
    /\ \E r \in {calculate(form)} :
          /\ ui' = Shown("calculate", r, root_beam_obj(r, ui.beam_obj))
          /\ widgets' = IF r.error THEN widgets
                        ELSE [widgets EXCEPT !.btn_plot = "normal"]
          /\ pressed' = [last |-> form,
                         ok |-> IF r.error THEN pressed.ok ELSE form]
    /\ UNCHANGED <<impl, beam, outcome, n, x, V, M, d, y, stress, sf,
                   form, cache, project>>

\* the quick presets of the inputs form
SSCenterPoint == "SS + Center Point"
CantileverEndPoint == "Cantilever + End Point"
SSUDL == "SS + UDL"
Presets == {NoPreset, SSCenterPoint, CantileverEndPoint, SSUDL}

\* if applied and preset != "(none)": the script's local variables
\* beam_type, load_type, L and load_val are reassigned; the widgets keep
\* their values
preset_locals(f, preset) ==
    IF preset = SSCenterPoint
    THEN [f EXCEPT !.beam_type = SS, !.load_type = PLC,
                   !.L = Rat(4), !.Load = Rat(8000)]
    ELSE IF preset = CantileverEndPoint
    THEN [f EXCEPT !.beam_type = CANT, !.load_type = PLE,
                   !.L = Rat(2), !.Load = Rat(1200)]
    ELSE IF preset = SSUDL
    THEN [f EXCEPT !.beam_type = SS, !.load_type = UDL,
                   !.L = Rat(5), !.Load = Rat(3000)]
    ELSE f

\* the local variables of one script run: the widget values, reassigned by
\* the preset in the run where st.form_submit_button returned True
script_locals(f, preset, applied) ==
    IF applied /\ preset # NoPreset THEN preset_locals(f, preset) ELSE f

\* the run the form's submit button starts: every st.button reads False,
\* so no panel and no export runs; the preset selectbox keeps its value
inputs_form_submit ==
    /\ impl = "web"
    /\ form # NoForm
    /\ \E p \in Presets :
          /\ widgets' = [widgets EXCEPT !.preset = p]
          /\ ui' = [locals |-> script_locals(form, p, TRUE)]
                    @@ Shown("apply_inputs", Nothing, NoBeam)
    /\ UNCHANGED <<impl, beam, outcome, n, x, V, M, d, y, stress, sf,
                   form, cache, project, pressed>>

\* a button of the web dashboard: the two panels validate, the four
\* exports do not; all of them go through the cached compute_all.  In the
\* run a button starts the form's submit button reads False
web_action(name, validates) ==
    /\ impl = "web"
    /\ form # NoForm
    /\ \E loc \in {script_locals(form, widgets.preset, FALSE)} :
       IF validates
          /\ validate_inputs(loc.L, loc.a, loc.I, loc.c, loc.E) # {}
       THEN /\ ui' = Shown(name, Rejected, NoBeam)
            /\ UNCHANGED cache
       ELSE \E k \in {args_of(loc)} :
               IF cache_key(k) \in DOMAIN cache
               THEN /\ ui' = Shown(name, served(cache[cache_key(k)]), NoBeam)
                    /\ UNCHANGED cache
               ELSE \E r \in {compute_all(k)} :
                       /\ ui' = Shown(name, r, NoBeam)
                       /\ cache' = IF r.error THEN cache
                                   ELSE (cache_key(k) :> r.result) @@ cache
    /\ UNCHANGED <<impl, beam, outcome, n, x, V, M, d, y, stress, sf,
                   form, project, widgets, pressed>>

do_results == web_action("do_results", TRUE)
do_plots == web_action("do_plots", TRUE)
do_pdf == web_action("do_pdf", FALSE)
do_csv == web_action("do_csv", FALSE)
do_xlsx == web_action("do_xlsx", FALSE)
do_docx == web_action("do_docx", FALSE)

\* the requests of a front end: the desktop entries take any number and an
\* empty a; the web widgets keep L > 0, a >= 0 (never empty), I >= 0, c >= 0
FormCases == {<<SS, PLA>>, <<CANT, UDL>>, <<FF, PLCFF>>}
FormLengths(im) ==
    IF im = "desktop" THEN {Rat(-1), Rat(0), Rat(2)} ELSE {Rat(1), Rat(2)}
FormPositions(im, lt) ==
    IF ~any_position(lt) THEN {None}
    ELSE IF im = "desktop" THEN {None, Rat(1), Rat(3)}
    ELSE {Rat(1), Rat(3)}
FormStiffness == {Rat(0), Rat(1)}
Forms(im) ==
    {Form(cs[1], cs[2], L, Rat(1), IF im = "desktop" THEN "N" ELSE Metric,
          a, "Custom", E, None, I, c) :
        cs \in IF im = "desktop" THEN FormCases ELSE FormCases \ {<<FF, PLCFF>>},
        L \in FormLengths(im), a \in {None, Rat(1), Rat(3)},
        E \in FormStiffness, I \in FormStiffness, c \in FormStiffness}


InitFront ==
    /\ impl \in Impls
    /\ beam = NoBeam
    /\ outcome = [o \in Operations |-> "none"]
    /\ n = 0
    /\ x = <<>> /\ V = <<>> /\ M = <<>>
    /\ d = EmptyDict
    /\ y = <<>>
    /\ stress = None /\ sf = None
    /\ \E f \in Forms(impl) :
          /\ f.a \in FormPositions(impl, f.load_type)
          /\ form = f
    /\ ui = NoShown
    /\ cache = EmptyCache
    /\ project = NoProject
    /\ widgets = InitialWidgets /\ pressed = NoPress

NextFront ==
    \/ Calculate
    \/ do_results \/ do_plots \/ do_pdf \/ do_csv \/ do_xlsx \/ do_docx

SpecFront == InitFront /\ [][NextFront]_vars

(***************************************************************************)
(* Saving and loading the inputs.  project.file is the JSON file written   *)
(* last, project.loaded_json the web session's 'loaded_json' entry.  E of  *)
(* the materials table is in units of 1e11 Pa and Sy in units of 1e8 Pa.   *)
(***************************************************************************)
A36 == "Carbon Steel A36"
materials == (A36 :> [E |-> Rat(2), Sy |-> Frac(5, 2)])

\* BeamApp._collect_inputs: the texts of all the fields
collect_inputs(f) ==
    f

\* BeamApp._on_material_select: a material of the table fills E and Sy
\* (f"{E:.6e}" keeps the table's values, which have three digits)
on_material_select(f) ==
    IF f.material \in DOMAIN materials
    THEN [f EXCEPT !.E = IF materials[f.material].E # None
                         THEN materials[f.material].E ELSE @,
                   !.Sy = IF materials[f.material].Sy # None
                          THEN materials[f.material].Sy ELSE @]
    ELSE f

\* BeamApp._apply_inputs: every field is set from the file, then
\* self._on_material_select() runs
apply_inputs(data) ==
    on_material_select(data)

\* the user changes the fields
EditForm(S) ==
    /\ form # NoForm
    /\ form' \in S \ {form}
    /\ ui' = [ui EXCEPT !.action = "edit"]
    /\ UNCHANGED <<impl, beam, outcome, n, x, V, M, d, y, stress, sf,
                   cache, project, widgets, pressed>>

\* File > Save Project
save_project ==
    /\ impl = "desktop"
    /\ form # NoForm
    /\ project' = [project EXCEPT !.file = collect_inputs(form)]
    /\ ui' = [ui EXCEPT !.action = "save_project"]
    /\ UNCHANGED <<impl, beam, outcome, n, x, V, M, d, y, stress, sf,
                   form, cache, widgets, pressed>>

\* File > Load Project
load_project ==
    /\ impl = "desktop"
    /\ project.file # NoForm
    /\ form' = apply_inputs(project.file)
    /\ ui' = [ui EXCEPT !.action = "load_project"]
    /\ UNCHANGED <<impl, beam, outcome, n, x, V, M, d, y, stress, sf,
                   cache, project, widgets, pressed>>

\* Save Inputs (JSON): the payload offered for download
do_save_json ==
    /\ impl = "web"
    /\ form # NoForm
    /\ project' = [project EXCEPT !.file = form]
    /\ ui' = [ui EXCEPT !.action = "do_save_json"]
    /\ UNCHANGED <<impl, beam, outcome, n, x, V, M, d, y, stress, sf,
                   form, cache, widgets, pressed>>

\* Load Inputs (JSON): the file goes to st.session_state['loaded_json'];
\* no widget reads it back
up_json ==
    /\ impl = "web"
    /\ project.file # NoForm
    /\ project' = [project EXCEPT !.loaded_json = project.file]
    /\ ui' = [ui EXCEPT !.action = "up_json"]
    /\ UNCHANGED <<impl, beam, outcome, n, x, V, M, d, y, stress, sf,
                   form, cache, widgets, pressed>>

ProjectForms(im) ==
    {Form(SS, PLA, Rat(2), Rat(1), IF im = "desktop" THEN "N" ELSE Metric,
          a, m, E, Sy, Rat(1), Rat(1)) :
        a \in {Rat(0), Rat(1)}, m \in {A36, "Custom"},
        E \in {Rat(1), Rat(2)}, Sy \in {None, Frac(5, 2), Rat(3)}}

InitProject ==
    /\ impl \in Impls
    /\ beam = NoBeam
    /\ outcome = [o \in Operations |-> "none"]
    /\ n = 0
    /\ x = <<>> /\ V = <<>> /\ M = <<>>
    /\ d = EmptyDict
    /\ y = <<>>
    /\ stress = None /\ sf = None
    /\ form \in ProjectForms(impl)
    /\ ui = NoShown
    /\ cache = EmptyCache
    /\ project = NoProject
    /\ widgets = InitialWidgets /\ pressed = NoPress

NextProject ==
    \/ EditForm(ProjectForms(impl))
    \/ save_project \/ load_project
    \/ do_save_json \/ up_json

SpecProject == InitProject /\ [][NextProject]_vars

(***************************************************************************)
(* Analyses one after another at one front end: the user changes the       *)
(* fields between them, and the web dashboard's cache fills.               *)
(***************************************************************************)
\* requests that differ in the position, in the load, in the section
CacheForm(im, P, a, I) ==
    Form(SS, PLA, Rat(2), P, IF im = "desktop" THEN "N" ELSE Metric,
         a, "Custom", Rat(1), Rat(3), I, Rat(1))
CacheForms(im) ==
    {CacheForm(im, Rat(1), Frac(1, 2), Rat(1)),
     CacheForm(im, Rat(1), Frac(3, 2), Rat(1)),
     CacheForm(im, Rat(2), Frac(1, 2), Rat(1)),
     CacheForm(im, Rat(1), Frac(1, 2), Rat(0))}

InitCache ==
    /\ impl \in Impls
    /\ beam = NoBeam
    /\ outcome = [o \in Operations |-> "none"]
    /\ n = 0
    /\ x = <<>> /\ V = <<>> /\ M = <<>>
    /\ d = EmptyDict
    /\ y = <<>>
    /\ stress = None /\ sf = None
    /\ form \in CacheForms(impl)
    /\ ui = NoShown
    /\ cache = EmptyCache
    /\ project = NoProject
    /\ widgets = InitialWidgets /\ pressed = NoPress

\* Show Results validates and Download CSV does not; the other four
\* buttons go one of these two ways
NextCache ==
    \/ EditForm(CacheForms(impl))
    \/ Calculate
    \/ do_results
    \/ do_csv

SpecCache == InitCache /\ [][NextCache]_vars

(***************************************************************************)
(* The desktop form's two comboboxes.  Both are read-only and both call    *)
(* _on_load_change when an item is selected; nothing else calls it.        *)
(***************************************************************************)
ComboBeamTypes == {SS, CANT, FF}
ComboLoadTypes == {PLC, PLA, UDL, PLE, AMC, AME, PLCFF}

\* the suggested unit: "UDL" in case, "Moment" in case, otherwise
unit_hint(case) ==
    IF case = UDL THEN "N/m"
    ELSE IF case \in {AMC, AME} THEN "Nm"
    ELSE "N"

\* "Keep case list sensible per beam type": the load type the handler
\* leaves selected
sensible_case(b, case) ==
    IF b = CANT
    THEN IF case \in {PLE, UDL, AME} THEN case ELSE PLE
    ELSE IF b = FF
    THEN IF case \in {UDL, PLC, PLCFF} THEN case ELSE UDL
    ELSE case

\* BeamApp._on_load_change on the fields f and the widgets w: the unit and
\* the state of entry_a follow the load type read at the top, then the
\* load type is replaced if the beam type does not take it
on_load_change(f, w) ==
    [form |-> [f EXCEPT !.unit = unit_hint(f.load_type),
                        !.load_type = sensible_case(f.beam_type, f.load_type)],
     widgets |-> [w EXCEPT !.entry_a = IF any_position(f.load_type)
                                       THEN "normal" ELSE "disabled"]]

\* an item of the Beam Type combobox is selected
SelectBeamType ==
    /\ impl = "desktop"
    /\ form # NoForm
    /\ \E b \in ComboBeamTypes :
          \E r \in {on_load_change([form EXCEPT !.beam_type = b], widgets)} :
              form' = r.form /\ widgets' = r.widgets
    /\ ui' = [ui EXCEPT !.action = "select_beam_type"]
    /\ UNCHANGED <<impl, beam, outcome, n, x, V, M, d, y, stress, sf,
                   cache, project, pressed>>

\* an item of the Load Type combobox is selected
SelectLoadType ==
    /\ impl = "desktop"
    /\ form # NoForm
    /\ \E case \in ComboLoadTypes :
          \E r \in {on_load_change([form EXCEPT !.load_type = case], widgets)} :
              form' = r.form /\ widgets' = r.widgets
    /\ ui' = [ui EXCEPT !.action = "select_load_type"]
    /\ UNCHANGED <<impl, beam, outcome, n, x, V, M, d, y, stress, sf,
                   cache, project, pressed>>

\* the form as the program starts it, with numbers typed into the entries,
\* and a project file saved in an earlier session
GuiForm(b, case) ==
    Form(b, case, Rat(2), Rat(1), "N", Rat(1), "Custom", Rat(1), None,
         Rat(1), Rat(1))
GuiFiles == {GuiForm(CANT, UDL), GuiForm(FF, PLC)}

InitGui ==
    /\ impl = "desktop"
    /\ beam = NoBeam
    /\ outcome = [o \in Operations |-> "none"]
    /\ n = 0
    /\ x = <<>> /\ V = <<>> /\ M = <<>>
    /\ d = EmptyDict
    /\ y = <<>>
    /\ stress = None /\ sf = None
    /\ form = GuiForm(SS, PLC)
    /\ ui = NoShown
    /\ cache = EmptyCache
    /\ \E file \in GuiFiles : project = [NoProject EXCEPT !.file = file]
    /\ widgets = InitialWidgets /\ pressed = NoPress

\* one analysis per session: Calculate until it has completed once
NextGui ==
    \/ SelectBeamType
    \/ SelectLoadType
    \/ load_project
    \/ ui.beam_obj = NoBeam /\ Calculate

SpecGui == InitGui /\ [][NextGui]_vars

(***************************************************************************)
(* The desktop buttons that use root.beam_obj.  A disabled ttk.Button does *)
(* not call its command, so plot_diagrams runs only with the button        *)
(* enabled; the two export buttons are always enabled.  An export whose    *)
(* file dialog is cancelled returns before it reads the beam.              *)
(***************************************************************************)
\* messagebox.showwarning(..., "Calculate first."): nothing else happens
Warned == [error |-> TRUE, built |-> NoBeam, calls |-> {},
           result |-> NoResult]
\* the Beam methods a button reaches on root.beam_obj
Used(ops) == [error |-> FALSE, built |-> NoBeam, calls |-> ops,
              result |-> NoResult]

\* a fault of has_beam_obj: the test always passes
has_beam_obj_always == TRUE

\* hasattr(self.root, 'beam_obj'): the attribute is set by calculate only
has_beam_obj == ui.beam_obj # NoBeam

\* BeamApp.plot_diagrams: self.root.beam_obj.plot_all()
plot_diagrams ==
    /\ impl = "desktop"
    /\ form # NoForm
    /\ widgets.btn_plot = "normal"
    /\ ui' = IF has_beam_obj
             THEN Shown("plot_diagrams", Used({"diagrams", "deflection"}),
                        ui.beam_obj)
             ELSE Shown("plot_diagrams", Warned, ui.beam_obj)
    /\ UNCHANGED <<impl, beam, outcome, n, x, V, M, d, y, stress, sf,
                   form, cache, project, widgets, pressed>>

\* an export button: the warning, or the file dialog and then the file
export(name, ops) ==
    /\ impl = "desktop"
    /\ form # NoForm
    /\ \E path \in {"", "file"} :
          ui' = IF ~has_beam_obj THEN Shown(name, Warned, ui.beam_obj)
                ELSE IF path = "" THEN Shown(name, Nothing, ui.beam_obj)
                ELSE Shown(name, Used(ops), ui.beam_obj)
    /\ UNCHANGED <<impl, beam, outcome, n, x, V, M, d, y, stress, sf,
                   form, cache, project, widgets, pressed>>

\* BeamApp.export_csv and BeamApp.export_pdf
export_csv == export("export_csv", {"diagrams", "deflection"})
export_pdf == export("export_pdf", {"diagrams", "deflection", "reactions"})

\* the entries of a Simply Supported beam with a point load: the position
\* empty, on the beam or beyond its end, and two load values
PlotForms ==
    {Form(SS, PLA, Rat(2), P, "N", a, "Custom", Rat(1), None, Rat(1), Rat(1)) :
        P \in {Rat(1), Rat(2)}, a \in {None, Rat(1), Rat(3)}}

InitPlot ==
    /\ impl = "desktop"
    /\ beam = NoBeam
    /\ outcome = [o \in Operations |-> "none"]
    /\ n = 0
    /\ x = <<>> /\ V = <<>> /\ M = <<>>
    /\ d = EmptyDict
    /\ y = <<>>
    /\ stress = None /\ sf = None
    /\ form \in PlotForms
    /\ ui = NoShown
    /\ cache = EmptyCache
    /\ project = NoProject
    /\ widgets = InitialWidgets /\ pressed = NoPress

NextPlot ==
    \/ EditForm(PlotForms)
    \/ Calculate
    \/ plot_diagrams
    \/ export_csv
    \/ export_pdf

SpecPlot == InitPlot /\ [][NextPlot]_vars

(***************************************************************************)
(* The web inputs form with its quick presets, and the six buttons.        *)
(***************************************************************************)
PresetForms ==
    {Form(SS, UDL, Rat(2), Rat(1), Metric, None, "Custom", Rat(1), None,
          Rat(1), Rat(1)),
     Form(SS, PLC, Rat(2), Rat(2), Metric, None, "Custom", Rat(1), None,
          Rat(1), Rat(1)),
     Form(CANT, PLE, Rat(1), Rat(1), Metric, None, "Custom", Rat(1), Rat(3),
          Rat(1), Rat(1))}

InitPreset ==
    /\ impl = "web"
    /\ beam = NoBeam
    /\ outcome = [o \in Operations |-> "none"]
    /\ n = 0
    /\ x = <<>> /\ V = <<>> /\ M = <<>>
    /\ d = EmptyDict
    /\ y = <<>>
    /\ stress = None /\ sf = None
    /\ form \in PresetForms
    /\ ui = NoShown
    /\ cache = EmptyCache
    /\ project = NoProject
    /\ widgets = InitialWidgets /\ pressed = NoPress

NextPreset ==
    \/ inputs_form_submit
    \/ do_results \/ do_plots \/ do_pdf \/ do_csv \/ do_xlsx \/ do_docx

SpecPreset == InitPreset /\ [][NextPreset]_vars

(***************************************************************************)
(* The five methods of one Beam, called in any order, any number of times. *)
(***************************************************************************)
FrameCounts == {3}
FrameBeams(im) ==
    {Construct(im, cs[1], cs[2], Rat(2), Rat(1),
               Section(Rat(1), Rat(1), Rat(1), Rat(3)), pos) :
        cs \in {<<SS, PLA>>, <<CANT, PLE>>, <<FF, UDL>>},
        pos \in {None, Frac(1, 2)}}

InitFrame ==
    /\ impl \in Impls
    /\ beam \in FrameBeams(impl)
    /\ outcome = [o \in Operations |-> "none"]
    /\ n = 0
    /\ x = <<>> /\ V = <<>> /\ M = <<>>
    /\ d = EmptyDict
    /\ y = <<>>
    /\ stress = None /\ sf = None
    /\ FrontIdle

NextFrame ==
    \/ \E k \in FrameCounts : DiagramsN(k)
    \/ Deflection
    \/ Reactions
    \/ BendingStress
    \/ SafetyFactor

SpecFrame == InitFrame /\ [][NextFrame]_vars

TypeOK ==
    /\ impl \in Impls
    /\ beam # NoBeam =>
          /\ beam.beam_type \in BeamTypes
          /\ beam.load_type \in LoadTypes
          /\ beam.length \in Lengths
          /\ beam.load \in Loads
          /\ beam.E \in Moduli
          /\ beam.I \in Inertias
          /\ beam.a \in Positions
    /\ Len(x) = Len(V) /\ Len(V) = Len(M)
    /\ outcome \in [Operations -> {"none", "returned", "raised"}]
    /\ n \in {0} \cup SampleCounts

(***************************************************************************)
(* Vocabulary of the properties.                                           *)
(***************************************************************************)
HasBeam == beam # NoBeam
IsCase(bt, lt) == HasBeam /\ beam.beam_type = bt /\ beam.load_type = lt
DefinedCase == HasBeam /\ <<beam.beam_type, beam.load_type>> \in DefinedCases
DiagReturned == HasBeam /\ outcome["diagrams"] = "returned"
ReactReturned == HasBeam /\ outcome["reactions"] = "returned"
PositiveLength == HasBeam /\ RLt(Zero, beam.length)
\* the position is given and lies on the beam: 0 <= a <= L
PositionOnBeam ==
    /\ HasBeam
    /\ beam.a # None
    /\ RLe(Zero, beam.a) /\ RLe(beam.a, beam.length)
AllZero(arr) == \A i \in DOMAIN arr : arr[i] = Zero
OddCount == n % 2 = 1
Mid == (n + 1) \div 2

(***************************************************************************)
(* C1.  For every (beam_type, load_type) pair outside the nine defined     *)
(* cases, diagrams ends in an error and never returns all-zero V and M     *)
(* arrays as a result, in the desktop and in the web copy.                 *)
(* The code has no branch for such a pair and returns the zero arrays.     *)
(***************************************************************************)
C1_UndefinedPairIsError ==
    (HasBeam /\ ~DefinedCase /\ outcome["diagrams"] # "none")
        => /\ outcome["diagrams"] = "raised"
           /\ ~(AllZero(V) /\ AllZero(M) /\ Len(V) > 0)

(***************************************************************************)
(* C2.  For every defined case, every L > 0 and every n >= 2, diagrams(n)  *)
(* returns x, V and M of length n, with x[0] = 0, x[n-1] = L, x strictly   *)
(* increasing and uniformly spaced: x[i] = i*L/(n-1).                      *)
(***************************************************************************)
C2_SampleGrid ==
    (DiagReturned /\ DefinedCase /\ PositiveLength)
        => /\ Len(x) = n /\ Len(V) = n /\ Len(M) = n
           /\ x[1] = Zero
           /\ x[n] = beam.length
           /\ \A i \in 1..(n - 1) : RLt(x[i], x[i + 1])
           /\ \A i \in 1..n :
                 x[i] = RDiv(RMul(Rat(i - 1), beam.length), Rat(n - 1))

C2_Witness ==
    /\ DiagReturned /\ DefinedCase /\ PositiveLength
    /\ impl = "web"
    /\ n = MaxN
    /\ beam.length = Rat(MaxL)

(***************************************************************************)
(* C3.  Equilibrium of the reactions, for L > 0 and every load magnitude:  *)
(* RA + RB = P for Simply Supported Point Load (Center), for Simply        *)
(* Supported Point Load (Any Position) with 0 <= a <= L and for            *)
(* Fixed-Fixed Point Load (Center); RA + RB = w*L for Simply Supported UDL *)
(* and Fixed-Fixed UDL; V@fix is the total applied force for Cantilever:   *)
(* P for Point Load (End), w*L for UDL, 0 for Applied Moment (End).        *)
(***************************************************************************)
SumRARB == RAdd(d["RA"], d["RB"])
TotalUDL == RMul(beam.load, beam.length)

C3_Equilibrium ==
    (ReactReturned /\ PositiveLength)
        => /\ IsCase(SS, PLC) => SumRARB = beam.load
           /\ (IsCase(SS, PLA) /\ PositionOnBeam) => SumRARB = beam.load
           /\ IsCase(FF, PLC) => SumRARB = beam.load
           /\ IsCase(SS, UDL) => SumRARB = TotalUDL
           /\ IsCase(FF, UDL) => SumRARB = TotalUDL
           /\ IsCase(CANT, PLE) => d["V@fix"] = beam.load
           /\ IsCase(CANT, UDL) => d["V@fix"] = TotalUDL
           /\ IsCase(CANT, AME) => d["V@fix"] = Zero

C3_Witness ==
    /\ ReactReturned /\ PositiveLength
    /\ IsCase(SS, PLA) /\ PositionOnBeam
    /\ beam.a = Frac(1, 2)
    /\ beam.length = Rat(2)
    /\ beam.load = Rat(1)
    /\ d["RA"] = Frac(3, 4) /\ d["RB"] = Frac(1, 4)

(***************************************************************************)
(* C4.  As claimed: for Fixed-Fixed + UDL with any L > 0 and w,            *)
(* reactions() returns RA = RB = w*L/2 and both end moments MA@A and MB@B  *)
(* equal to -w*L^2/12, the value the moment diagram takes at x = 0 and at  *)
(* x = L.  The code returns MA@A = +w*L^2/12.                              *)
(***************************************************************************)
WL2over12 == RDiv(RMul(beam.load, RSq(beam.length)), Rat(12))

HasRARB ==
    \/ IsCase(SS, PLC) \/ IsCase(SS, UDL)
    \/ IsCase(FF, UDL) \/ IsCase(FF, PLC)
    \/ (IsCase(SS, PLA) /\ PositionOnBeam)

C5_ShearMeetsReactionsAnyPosition ==
    (HasRARB /\ PositiveLength /\ DiagReturned /\ ReactReturned)
        => (V[1] = d["RA"] /\ V[n] = RNeg(d["RB"]))

(***************************************************************************)
(* C5, amended.  For L > 0, for Simply Supported Point Load (Center) and   *)
(* UDL, Fixed-Fixed UDL and Point Load (Center), and Simply Supported      *)
(* Point Load (Any Position) with 0 < a <= L: V at the first sample equals *)
(* RA and V at the last sample equals -RB.  With a = 0 the first sample    *)
(* lies at the load: V there is RA - P, and V at the last sample is -RB.   *)
(***************************************************************************)
C5_ShearMeetsReactions ==
    (HasRARB /\ PositiveLength /\ DiagReturned /\ ReactReturned)
        => /\ V[n] = RNeg(d["RB"])
           /\ IF IsCase(SS, PLA) /\ beam.a = Zero
              THEN V[1] = RSub(d["RA"], beam.load)
              ELSE V[1] = d["RA"]

C5_Witness ==
    /\ IsCase(SS, PLA) /\ PositiveLength /\ DiagReturned /\ ReactReturned
    /\ beam.a = beam.length
    /\ beam.load = Rat(1)
    /\ V[1] = Zero /\ V[n] = Rat(-1)
    /\ d["RB"] = Rat(1)

(***************************************************************************)
(* C6.  Simply Supported + Point Load (Center), P > 0, L > 0, odd sample   *)
(* count: M(0) = M(L) = 0; M at the midspan sample is P*L/4 and is the     *)
(* maximum of M over the samples; V(x) = -V(L - x) for every sample        *)
(* x # L/2; V = P/2 left of midspan and -P/2 from midspan on.              *)
(***************************************************************************)
HalfL == RDiv(beam.length, Rat(2))
HalfLoad == RDiv(beam.load, Rat(2))

C6_CenterLoadSymmetry ==
    (IsCase(SS, PLC) /\ PositiveLength /\ RLt(Zero, beam.load)
     /\ DiagReturned /\ OddCount)
        => /\ M[1] = Zero /\ M[n] = Zero
           /\ x[Mid] = HalfL
           /\ M[Mid] = RDiv(RMul(beam.load, beam.length), Rat(4))
           /\ \A i \in 1..n : RLe(M[i], M[Mid])
           /\ \A i \in 1..n :
                 x[i] # HalfL =>
                    /\ x[n + 1 - i] = RSub(beam.length, x[i])
                    /\ V[i] = RNeg(V[n + 1 - i])
           /\ \A i \in 1..n :
                 V[i] = IF RLt(x[i], HalfL) THEN HalfLoad ELSE RNeg(HalfLoad)

C6_Witness ==
    /\ IsCase(SS, PLC) /\ PositiveLength /\ RLt(Zero, beam.load)
    /\ DiagReturned /\ OddCount
    /\ n = 5
    /\ beam.length = Rat(2) /\ beam.load = Rat(1)
    /\ M[3] = Frac(1, 2)
    /\ V[2] = Frac(1, 2) /\ V[3] = Frac(-1, 2)

(***************************************************************************)
(* C7.  Simply Supported + UDL, w > 0, L > 0: RA = RB = w*L/2;             *)
(* V(x) = w*L/2 - w*x and M(x) = (w*L/2)*x - w*x^2/2 at every sample;      *)
(* M(0) = M(L) = 0; with an odd sample count the maximum of |M| over the   *)
(* samples is w*L^2/8, at the midspan sample.                              *)
(***************************************************************************)
C7_SimplySupportedUDL ==
    (IsCase(SS, UDL) /\ PositiveLength /\ RLt(Zero, beam.load))
        => /\ ReactReturned =>
                 /\ d["RA"] = RDiv(TotalUDL, Rat(2))
                 /\ d["RB"] = RDiv(TotalUDL, Rat(2))
           /\ DiagReturned =>
                 \* V = w*(L/2 - x),  M = w*x*(L - x)/2
                 /\ \A i \in 1..n :
                       /\ V[i] = RMul(beam.load, RSub(HalfL, x[i]))
                       /\ M[i] = RDiv(RMul(RMul(beam.load, x[i]),
                                           RSub(beam.length, x[i])), Rat(2))
                 /\ M[1] = Zero /\ M[n] = Zero
                 /\ OddCount =>
                       /\ x[Mid] = HalfL
                       /\ RAbs(M[Mid]) =
                             RDiv(RMul(beam.load, RSq(beam.length)), Rat(8))
                       /\ \A i \in 1..n : RLe(RAbs(M[i]), RAbs(M[Mid]))

C7_Witness ==
    /\ IsCase(SS, UDL) /\ PositiveLength /\ RLt(Zero, beam.load)
    /\ ReactReturned /\ DiagReturned /\ OddCount
    /\ impl = "web"
    /\ n = 5
    /\ beam.length = Rat(2) /\ beam.load = Rat(1)
    /\ d["RA"] = Rat(1)
    /\ M[3] = Frac(1, 2) /\ M[2] = Frac(3, 8)

(***************************************************************************)
(* C8.  Cantilever + Point Load (End), any P, L > 0: V = -P at every       *)
(* sample and M(x) = -P*(L - x) at every sample, so M(0) = -P*L at the     *)
(* fixed end and M(L) = 0 at the free end.  Cantilever + UDL: V(L) = 0 and *)
(* M(L) = 0 at the free end, and M(0) = -w*L^2/2.                          *)
(***************************************************************************)
C8_Cantilever ==
    (PositiveLength /\ DiagReturned)
        => /\ IsCase(CANT, PLE) =>
                 /\ \A i \in 1..n :
                       /\ V[i] = RNeg(beam.load)
                       \* -P*(L - x) = P*x - P*L
                       /\ M[i] = RSub(RMul(beam.load, x[i]),
                                      RMul(beam.load, beam.length))
                 /\ M[1] = RNeg(RMul(beam.load, beam.length))
                 /\ M[n] = Zero
           /\ IsCase(CANT, UDL) =>
                 /\ V[n] = Zero
                 /\ M[n] = Zero
                 /\ M[1] = RNeg(RDiv(RMul(beam.load, RSq(beam.length)), Rat(2)))

C8_Witness ==
    /\ PositiveLength /\ DiagReturned
    /\ IsCase(CANT, PLE)
    /\ n = 3
    /\ beam.length = Rat(2) /\ beam.load = Rat(1)
    /\ V = <<Rat(-1), Rat(-1), Rat(-1)>>
    /\ M = <<Rat(-2), Rat(-1), Rat(0)>>

(***************************************************************************)
(* C9.  Simply Supported + Point Load (Any Position), L > 0, 0 <= a <= L,  *)
(* with R1 = P*(L - a)/L: at every sample V = R1 for x < a and R1 - P      *)
(* otherwise, M = R1*x for x < a and R1*x - P*(x - a) otherwise;           *)
(* M(0) = 0 and M(L) = 0; M is continuous at x = a; when a is a sample     *)
(* point and P > 0 the maximum of M is P*a*(L - a)/L, at x = a.            *)
(***************************************************************************)
\* the two reactions, and the moment under the load
R1Left == RDiv(RMul(beam.load, RSub(beam.length, beam.a)), beam.length)
R2Right == RDiv(RMul(beam.load, beam.a), beam.length)
MomentAtLoad ==
    RDiv(RMul(RMul(beam.load, beam.a), RSub(beam.length, beam.a)), beam.length)

C9_AnyPosition ==
    (IsCase(SS, PLA) /\ PositiveLength /\ PositionOnBeam /\ DiagReturned)
        => /\ \A i \in 1..n :
                 IF RLt(x[i], beam.a)
                 THEN /\ V[i] = R1Left
                      /\ M[i] = RMul(R1Left, x[i])
                 \* right of the load: V = -P*a/L, M = (P*a/L)*(L - x)
                 ELSE /\ V[i] = RNeg(R2Right)
                      /\ V[i] = RSub(R1Left, beam.load)
                      /\ M[i] = RMul(R2Right, RSub(beam.length, x[i]))
           /\ M[1] = Zero /\ M[n] = Zero
           \* continuity: the sample at a carries the value of the left branch
           /\ \A i \in 1..n : x[i] = beam.a => M[i] = RMul(R1Left, beam.a)
           /\ RLt(Zero, beam.load) =>
                 \A i \in 1..n :
                    x[i] = beam.a =>
                       /\ M[i] = MomentAtLoad
                       /\ \A j \in 1..n : RLe(M[j], M[i])

C9_Witness ==
    /\ IsCase(SS, PLA) /\ PositiveLength /\ PositionOnBeam /\ DiagReturned
    /\ n = 5
    /\ beam.length = Rat(2) /\ beam.load = Rat(1) /\ beam.a = Frac(1, 2)
    /\ x[2] = beam.a
    /\ M = <<Zero, Frac(3, 8), Frac(1, 4), Frac(1, 8), Zero>>

(***************************************************************************)
(* C10.  Fixed-Fixed + Point Load (Center), any P, L > 0, odd sample       *)
(* count: V = P/2 for x < L/2 and -P/2 for x >= L/2; M(0) = M(L) = -P*L/8  *)
(* and M at the midspan sample is +P*L/8; the two branches of M agree at   *)
(* x = L/2.                                                                *)
(***************************************************************************)
PLover8 == RDiv(RMul(beam.load, beam.length), Rat(8))

C10_FixedFixedCenterLoad ==
    (IsCase(FF, PLC) /\ PositiveLength /\ DiagReturned /\ OddCount)
        => /\ \A i \in 1..n :
                 V[i] = IF RLt(x[i], HalfL) THEN HalfLoad ELSE RNeg(HalfLoad)
           /\ M[1] = RNeg(PLover8) /\ M[n] = RNeg(PLover8)
           /\ x[Mid] = HalfL
           /\ M[Mid] = PLover8
           \* left branch up to midspan, right branch from midspan on: the
           \* midspan sample satisfies both
           /\ \A i \in 1..n :
                 /\ RLe(x[i], HalfL) =>
                       M[i] = RSub(RMul(HalfLoad, x[i]), PLover8)
                 /\ RLe(HalfL, x[i]) =>
                       M[i] = RSub(RMul(HalfLoad, RSub(beam.length, x[i])),
                                   PLover8)

C10_Witness ==
    /\ IsCase(FF, PLC) /\ PositiveLength /\ DiagReturned /\ OddCount
    /\ n = 5
    /\ beam.length = Rat(2) /\ beam.load = Rat(-1)
    /\ M = <<Frac(1, 4), Zero, Frac(-1, 4), Zero, Frac(1, 4)>>
    /\ V[3] = Frac(1, 2)

(***************************************************************************)
(* C11.  For any moment array M, any E*I # 0 and any strictly increasing x *)
(* from 0 to L > 0, deflection(x, M) has the length of x and delta[0] = 0  *)
(* for all three beam types, and delta[last] = 0 for Simply Supported and  *)
(* Fixed-Fixed; the free end of a Cantilever is left unconstrained.        *)
(***************************************************************************)
DeflReturned == HasBeam /\ outcome["deflection"] = "returned"
Stiff == HasBeam /\ RMul(beam.E, beam.I) # Zero
StrictGrid ==
    /\ Len(x) >= 2
    /\ x[1] = Zero
    /\ \A i \in 1..(Len(x) - 1) : RLt(x[i], x[i + 1])

C11_DeflectionBoundary ==
    (DeflReturned /\ Stiff /\ StrictGrid /\ beam.beam_type \in {SS, CANT, FF})
        => /\ Len(y) = Len(x)
           /\ y[1] = Zero
           /\ beam.beam_type \in {SS, FF} => y[Len(y)] = Zero

\* a Simply Supported beam with a deflected interior sample and pinned ends
C11_Witness ==
    /\ DeflReturned /\ Stiff /\ StrictGrid
    /\ beam.beam_type = SS
    /\ Len(x) = 3
    /\ M = <<Rat(1), Rat(1), Rat(1)>>
    /\ y[2] # Zero
    /\ y[3] = Zero

(***************************************************************************)
(* C12.  When E*I = 0, deflection(x, M) returns an array of zeros of the   *)
(* length of x, for every beam type and every M, without raising and       *)
(* without non-finite values.                                              *)
(***************************************************************************)
C12_ZeroStiffness ==
    (DeflReturned /\ ~Stiff)
        => /\ Len(y) = Len(x)
           /\ \A i \in 1..Len(y) : y[i] = Zero

\* E # 0 with I = 0: the product, not E alone, is zero
C12_Witness ==
    /\ DeflReturned /\ ~Stiff
    /\ beam.E # Zero /\ beam.I = Zero
    /\ beam.beam_type = "Propped"
    /\ \E i \in 1..Len(M) : M[i] # Zero
    /\ Len(y) = 3 /\ AllZero(y)

(***************************************************************************)
(* C13.  reactions() returns an empty mapping, without raising, for every  *)
(* (beam_type, load_type) pair outside the nine defined cases; for each    *)
(* defined case with L > 0 it returns exactly the keys of the case:        *)
(* {RA, RB} for the Simply Supported point and UDL cases, {MA@A, MB@B} for *)
(* Simply Supported Applied Moment (Center), {V@fix, M@fix} for every      *)
(* Cantilever case, {RA, RB, MA@A, MB@B} for every Fixed-Fixed case.       *)
(***************************************************************************)
KeysOfCase ==
    IF IsCase(SS, AMC) THEN {"MA@A", "MB@B"}
    ELSE IF beam.beam_type = SS THEN {"RA", "RB"}
    ELSE IF beam.beam_type = CANT THEN {"V@fix", "M@fix"}
    ELSE {"RA", "RB", "MA@A", "MB@B"}

C13_ReactionKeys ==
    (HasBeam /\ outcome["reactions"] # "none")
        => /\ ~DefinedCase =>
                 /\ outcome["reactions"] = "returned"
                 /\ DOMAIN d = {}
           /\ (DefinedCase /\ PositiveLength) =>
                 /\ outcome["reactions"] = "returned"
                 /\ DOMAIN d = KeysOfCase

\* a pair the desktop form offers and no branch matches
C13_Witness ==
    /\ ReactReturned
    /\ IsCase(SS, PLE)
    /\ beam.load # Zero
    /\ DOMAIN d = {}

(***************************************************************************)
(* C14.  bending_stress() returns None whenever I = 0 or c is unset, and   *)
(* otherwise (the largest |M| of the 601 default samples) * c / I; for a   *)
(* defined case with L > 0 it does not raise.  M is what diagrams()        *)
(* returned for the same Beam.                                             *)
(***************************************************************************)
StressReturned == outcome["bending_stress"] = "returned"
\* i is an index of a largest |M|
Largest(i) == \A j \in DOMAIN M : RLe(RAbs(M[j]), RAbs(M[i]))

C14_BendingStress ==
    /\ (HasBeam /\ DefinedCase /\ PositiveLength) =>
           outcome["bending_stress"] # "raised"
    /\ (HasBeam /\ StressReturned) =>
           /\ Len(M) = 601
           /\ IF beam.I = Zero \/ beam.c = None THEN stress = None
              ELSE \E i \in DOMAIN M :
                       /\ Largest(i)
                       /\ stress = RDiv(RMul(RAbs(M[i]), beam.c), beam.I)

\* Simply Supported UDL, w = -2, L = 2, c = 1, I = 2: |w| L^2 / 8 * c / I
C14_Witness ==
    /\ HasBeam /\ IsCase(SS, UDL) /\ StressReturned
    /\ beam.load = Rat(-2) /\ beam.length = Rat(2)
    /\ beam.c = Rat(1) /\ beam.I = Rat(2)
    /\ stress = Frac(1, 2)

(***************************************************************************)
(* C15 as stated.  safety_factor() returns None when yield_strength is     *)
(* unset (None), when bending_stress() is None or when it is 0, and in     *)
(* every other case yield_strength / bending_stress().                     *)
(***************************************************************************)
SafetyReturned == outcome["safety_factor"] = "returned"

C15_NoneOnlyWhenUnsetOrNoStress ==
    (HasBeam /\ SafetyReturned) =>
        IF beam.yield_strength = None \/ stress \in {None, Zero}
        THEN sf = None
        ELSE sf = RDiv(beam.yield_strength, stress)

(***************************************************************************)
(* C15, amended.  safety_factor() returns None when yield_strength is      *)
(* unset or 0, when bending_stress() is None or when it is 0; in every     *)
(* other case it returns yield_strength / bending_stress(), which is       *)
(* neither 0 nor infinite.                                                 *)
(***************************************************************************)
C15_SafetyFactor ==
    (HasBeam /\ SafetyReturned) =>
        /\ IF beam.yield_strength \in {None, Zero} \/ stress \in {None, Zero}
           THEN sf = None
           ELSE sf = RDiv(beam.yield_strength, stress)
        /\ sf \notin {Zero, NonFinite}

\* a yield strength of 3 over a stress of 1/2, and a zero load beside it
C15_Witness ==
    /\ HasBeam /\ SafetyReturned
    /\ beam.yield_strength = Rat(3) /\ stress = Frac(1, 2) /\ sf = Rat(6)

(***************************************************************************)
(* C16.  A Point Load (Any Position) request whose position a is missing   *)
(* or lies outside [0, L] ends in an error before any diagram, deflection  *)
(* or reaction is computed, in every front-end action.                     *)
(***************************************************************************)
Acted == ui.action # "none"
PositionMissingOrOff ==
    /\ form.load_type = PLA
    /\ \/ form.a = None
       \/ RLt(form.a, Zero)
       \/ RLt(form.L, form.a)

C16_BadPositionRejected ==
    (Acted /\ PositionMissingOrOff) =>
        /\ ui.error
        /\ ui.calls = {}
        /\ ui.result = NoResult

(***************************************************************************)
(* C17.  No front-end action reaches Beam.diagrams or Beam.deflection with *)
(* L <= 0, E <= 0, I <= 0 or c <= 0.                                       *)
(***************************************************************************)
C17_NonPositiveNeverComputed ==
    (Acted /\ ui.calls \cap {"diagrams", "deflection"} # {}) =>
        /\ RLt(Zero, ui.built.length)
        /\ RLt(Zero, ui.built.E)
        /\ RLt(Zero, ui.built.I)
        /\ RLt(Zero, ui.built.c)

(***************************************************************************)
(* C18.  Right after Load Project (desktop) or Load Inputs (web) every     *)
(* field of the form has the value the file holds: beam_type, load_type,   *)
(* L, Load, unit, a, material, E, Sy, I and c.                             *)
(***************************************************************************)
JustLoaded == ui.action \in {"load_project", "up_json"}

C18_LoadRestoresSavedFields ==
    JustLoaded =>
        \A k \in DOMAIN project.file : form[k] = project.file[k]

(***************************************************************************)
(* C19.  Whatever analyses ran before, an analysis shows the results a     *)
(* fresh computation on its inputs gives (Beam, stress, safety factor and  *)
(* reactions), and every entry of the compute_all cache is what a fresh    *)
(* compute_all on its key returns.                                         *)
(***************************************************************************)
Analysed ==
    ui.action \in {"calculate", "do_results", "do_csv"} /\ ~ui.error
Fresh(f) ==
    IF impl = "desktop" THEN calculate(f).result
    ELSE compute_all(args_of(f)).result

BeamFields ==
    {"beam_type", "load_type", "length", "load", "E", "I", "c", "material",
     "yield_strength", "a"}

C20_MethodsKeepFields ==
    [][\A k \in BeamFields : beam'[k] = beam[k]]_vars

\* all five methods have run on a Beam constructed without a position
C20_Witness ==
    /\ HasBeam
    /\ IsCase(SS, PLA) /\ beam.a = None
    /\ \A o \in Operations : outcome[o] = "returned"

(***************************************************************************)
(* C21.  Wherever results are displayed (desktop results window, web       *)
(* results panel, Excel summary, Word report, PDF report), a bending       *)
(* stress that is None is shown as "N/A", and so is a safety factor that   *)
(* is None: never omitted, never a number.                                 *)
(***************************************************************************)
DisplayPlaces == {"calculate", "do_results", "do_xlsx", "do_docx", "do_pdf"}
Displaying == ui.action \in DisplayPlaces /\ ui.result # NoResult

C21_NotComputableShownAsNA ==
    Displaying =>
        /\ ui.result.stress = None => ui.text.stress = "N/A"
        /\ ui.result.sf = None => ui.text.sf = "N/A"

(***************************************************************************)
(* C22.  The desktop Beam and the web Beam are observationally equivalent: *)
(* for L > 0, what one copy returned from diagrams, reactions and          *)
(* deflection(x, M) is what the other copy returns for the same fields     *)
(* and arguments, for every beam type string and every moment array.       *)
(***************************************************************************)
C22_CopiesAgree ==
    PositiveLength =>
        /\ DiagReturned =>
              /\ diagrams(beam, n) = web_diagrams(beam, n)
              /\ x = diagrams(beam, n).x
              /\ V = diagrams(beam, n).V
              /\ M = diagrams(beam, n).M
        /\ ReactReturned =>
              /\ reactions(beam) = web_reactions(beam)
              /\ d = reactions(beam).d
        /\ DeflReturned =>
              /\ y = deflection(beam, x, M)
              /\ y = web_deflection(beam, x, M)

(***************************************************************************)
(* C23.  deflection returns delta = I2 + C1*x, where I1[0] = I2[0] = 0,    *)
(* I1[i] = I1[i-1] + (k[i] + k[i-1])/2 * (x[i] - x[i-1]) with              *)
(* k = M/(E*I), I2[i] = I2[i-1] + (I1[i] + I1[i-1])/2 * (x[i] - x[i-1]);   *)
(* C1 = 0 for Cantilever and C1 = -I2[last]/x[last] for Simply Supported   *)
(* and Fixed-Fixed alike, so a Fixed-Fixed beam gets the deflection of a   *)
(* Simply Supported beam with the same x, M and E*I.                       *)
(***************************************************************************)
Kappa(i) == RDiv(M[i], RMul(beam.E, beam.I))
Dx(i) == RSub(x[i], x[i - 1])

RECURSIVE SlopeProxy(_)
SlopeProxy(i) ==
    IF i = 1 THEN Zero
    ELSE RAdd(SlopeProxy(i - 1),
              RMul(RMul(RAdd(Kappa(i), Kappa(i - 1)), Half), Dx(i)))

RECURSIVE DeflProxy(_)
DeflProxy(i) ==
    IF i = 1 THEN Zero
    ELSE RAdd(DeflProxy(i - 1),
              RMul(RMul(RAdd(SlopeProxy(i), SlopeProxy(i - 1)), Half), Dx(i)))

EndSlope ==
    IF beam.beam_type = CANT THEN Zero
    ELSE RNeg(RDiv(DeflProxy(Len(x)), x[Len(x)]))

AsSimplySupported == [beam EXCEPT !.beam_type = SS]

C23_DoubleTrapezoid ==
    (DeflReturned /\ Stiff /\ StrictGrid /\ beam.beam_type \in {SS, CANT, FF})
        => /\ Len(y) = Len(x)
           /\ \A i \in 1..Len(x) :
                 y[i] = RAdd(DeflProxy(i), RMul(EndSlope, x[i]))
           /\ beam.beam_type = FF =>
                 y = (IF impl = "desktop"
                      THEN deflection(AsSimplySupported, x, M)
                      ELSE web_deflection(AsSimplySupported, x, M))

\* a Fixed-Fixed beam over an uneven grid with a deflected interior sample
C23_Witness ==
    /\ DeflReturned /\ Stiff /\ StrictGrid
    /\ beam.beam_type = FF
    /\ Len(x) = 3
    /\ RSub(x[2], x[1]) # RSub(x[3], x[2])
    /\ M[1] # M[2]
    /\ y[2] # Zero

(***************************************************************************)
(* C24.  Simply Supported + Applied Moment (Center): V = 0 at every        *)
(* sample; M = 0 at every sample with x < L/2 and M = M0 at every sample   *)
(* with x >= L/2, so the sample exactly at midspan takes M0; the desktop   *)
(* and the web copy make the same choice for that sample.                  *)
(***************************************************************************)
C24_MomentCenterStep ==
    (IsCase(SS, AMC) /\ DiagReturned)
        => /\ AllZero(V)
           /\ \A i \in 1..n :
                 M[i] = IF RLt(x[i], HalfL) THEN Zero ELSE beam.load
           /\ \A i \in 1..n : x[i] = HalfL => M[i] = beam.load
           /\ diagrams(beam, n).M = web_diagrams(beam, n).M
           /\ diagrams(beam, n).V = web_diagrams(beam, n).V

\* a non-zero moment with a sample exactly at midspan
C24_Witness ==
    /\ IsCase(SS, AMC) /\ DiagReturned /\ PositiveLength /\ OddCount
    /\ beam.load # Zero
    /\ x[Mid] = HalfL
    /\ M[1] = Zero
    /\ M[Mid] = beam.load

(***************************************************************************)
(* C25.  Desktop form: after any sequence of beam-type and load-type       *)
(* selections (each followed by _on_load_change) and Load Project          *)
(* operations, the (beam type, load type) pair Calculate hands to Beam,    *)
(* after its remap of "Point Load (Center) [Fixed-Fixed]", is one of the   *)
(* nine defined cases.                                                     *)
(***************************************************************************)
C25_CalculateGetsDefinedCase ==
    (ui.action = "calculate" /\ ui.built # NoBeam)
        => <<ui.built.beam_type, ui.built.load_type>> \in DefinedCases

(***************************************************************************)
(* C26.  After every run of _on_load_change the entry of a is enabled if   *)
(* and only if the load type now selected is Point Load (Any Position),    *)
(* and the suggested unit is that of the load type now selected (N/m for   *)
(* UDL, Nm for the moment cases, N otherwise), also when the handler       *)
(* replaced the load type itself.                                          *)
(***************************************************************************)
HandlerRan == ui.action \in {"select_beam_type", "select_load_type"}
SuggestedUnit ==
    IF form.load_type = UDL THEN "N/m"
    ELSE IF form.load_type \in {AMC, AME} THEN "Nm"
    ELSE "N"

C26_HandlerLeavesFormConsistent ==
    HandlerRan =>
        /\ widgets.entry_a = "normal" <=> form.load_type = PLA
        /\ form.unit = SuggestedUnit

(***************************************************************************)
(* C27.  Desktop: Plot Diagrams, Export CSV and Export PDF act on a beam   *)
(* only if an earlier Calculate completed; until the first one completes   *)
(* an export only shows its warning, the Plot button stays disabled and    *)
(* nothing is plotted or written; a Calculate that fails shows an error    *)
(* and leaves root.beam_obj and the Plot button as they were.              *)
(***************************************************************************)
UsesBeam == {"plot_diagrams", "export_csv", "export_pdf"}
ActedOnBeam == ui.action \in UsesBeam /\ ui.calls # {}

C27_NothingBeforeFirstCalculate ==
    [][/\ ActedOnBeam' => pressed'.ok # NoForm
       /\ pressed'.ok = NoForm =>
             /\ widgets'.btn_plot = "disabled"
             /\ ui'.beam_obj = NoBeam
             /\ ui'.action \in UsesBeam => ui'.error /\ ui'.calls = {}
       /\ (ui'.action = "calculate" /\ ui'.error) =>
             /\ ui'.beam_obj = ui.beam_obj
             /\ widgets'.btn_plot = widgets.btn_plot]_vars

\* an export pressed after a Calculate that failed, none having completed
C27_Witness ==
    /\ ui.action = "export_csv"
    /\ ui.error /\ ui.calls = {}
    /\ pressed.last # NoForm /\ pressed.ok = NoForm
    /\ widgets.btn_plot = "disabled"

(***************************************************************************)
(* C28.  Desktop: the beam Plot Diagrams, Export CSV and Export PDF        *)
(* operate on is the beam built from the inputs of the most recent press   *)
(* of Calculate, whatever the edits, presses and exports before.           *)
(***************************************************************************)
C28_BeamOfLastPress ==
    ActedOnBeam => ui.beam_obj = calculate_beam(pressed.last)

\* as amended: the most recent press of Calculate that completed
C28_BeamOfLastCompletedPress ==
    ActedOnBeam =>
        /\ pressed.ok # NoForm
        /\ ui.beam_obj = calculate_beam(pressed.ok)

\* a plot after two different completed analyses and a failed third press
C28_Witness ==
    /\ ui.action = "plot_diagrams" /\ ui.calls # {}
    /\ pressed.last # pressed.ok
    /\ pressed.ok.Load = Rat(2)
    /\ form # pressed.ok

(***************************************************************************)
(* C29.  Web: once the inputs form was submitted with a quick preset       *)
(* selected, a click on Show Results, Show Plots or an export computes     *)
(* with the preset's beam type, load type, L and load value (Simply        *)
(* Supported, Point Load (Center), L = 4, load = 8000 for the first        *)
(* preset).                                                                *)
(***************************************************************************)
WebButtons ==
    {"do_results", "do_plots", "do_pdf", "do_csv", "do_xlsx", "do_docx"}
PresetCase ==
    IF widgets.preset = SSCenterPoint THEN <<SS, PLC, Rat(4), Rat(8000)>>
    ELSE IF widgets.preset = CantileverEndPoint
    THEN <<CANT, PLE, Rat(2), Rat(1200)>>
    ELSE <<SS, UDL, Rat(5), Rat(3000)>>

C29_PresetIsComputed ==
    (ui.action \in WebButtons /\ widgets.preset # NoPreset
     /\ ui.result # NoResult)
        => <<ui.result.beam.beam_type, ui.result.beam.load_type,
             ui.result.beam.length, ui.result.beam.load>> = PresetCase

(***************************************************************************)
(* C30.  Simply Supported + Point Load (Any Position) with a = L/2, or     *)
(* with a left unset, gives the V and M of Simply Supported + Point Load   *)
(* (Center) with the same P and L at every sample, the sample at x = L/2   *)
(* included, and the same RA and RB.                                       *)
(***************************************************************************)
AsCenterLoad == [beam EXCEPT !.load_type = PLC, !.a = None]
CenterDiagrams ==
    IF impl = "desktop" THEN diagrams(AsCenterLoad, n)
    ELSE web_diagrams(AsCenterLoad, n)
CenterReactions ==
    IF impl = "desktop" THEN reactions(AsCenterLoad)
    ELSE web_reactions(AsCenterLoad)

====
